---- MODULE Spec2Model ----
(***************************************************************************)
(* The embedded agent run orchestrator (runEmbeddedPiAgent): nested        *)
(* session/global lanes, the context window guard, auth profile rotation   *)
(* and the retry loop around runEmbeddedAttempt.                           *)
(***************************************************************************)
EXTENDS Integers, Sequences, FiniteSets, TLC

\* ------------------------------------------------------------------ bounds
\* Number of concurrent runEmbeddedPiAgent calls of the lane specification.
MaxRuns == 3
\* Number of auth profiles known to the credential store.
NumProfiles == 3
\* Largest context window size (in scaled tokens) the resolver reports.
MaxTokens == 5

\* The clock of phone control runs for this many minutes.
MaxClock == 12

\* The push-to-talk key is pressed at most this many times.
MaxPresses == 2

\* ------------------------------------------------------- program constants
\* Scaled stand-ins of the guard thresholds imported at run.ts:12-13.
CONTEXT_WINDOW_HARD_MIN_TOKENS == 2
CONTEXT_WINDOW_WARN_BELOW_TOKENS == 4

\* `undefined` for an optional profile id (run.ts:121 `[undefined]`).
NoProfile == 0
Profiles == 1..NumProfiles
\* `null` / absent error text.
None == "none"

\* ThinkLevel, ordered off < minimal < low < medium < high < xhigh; a level is
\* its position in this ladder.
ThinkLevels == <<"off", "minimal", "low", "medium", "high", "xhigh">>

\* The free-text error messages, by the class the helpers recognise in them.
MsgKinds == {"rate_limit", "auth", "timeout", "server_error", "context_overflow",
             "compaction_failure", "unsupported_thinking_level", "other"}

\* ------------------------------------------------------------- variables
VARIABLES
  uni,        \* the input sets this behaviour draws from (fixed by Init)
  params,     \* params[r]: RunEmbeddedPiAgentParams of run r
  pc,         \* pc[r]: where run r is
  lanes,      \* lanes[k]: [queue, active] of command lane k
  abortFired, \* abortFired[r]: params.abortSignal.aborted
  run,        \* run[r]: the locals of the run body
  hist,       \* hist[r]: what run r has done so far (observation only)
  result,     \* result[r]: how the future of run r settled
  guardIn,    \* inputs of a stand-alone evaluateContextWindowGuard call
  guardOut,   \* its result
  cwd,        \* process.cwd(), one per process
  prevCwd,    \* prevCwd[r]: the directories run r and its attempt saved
  att,        \* one runEmbeddedAttempt call, step by step
  cmd,        \* one handleCommands call: its parameters and its result
  ptt,        \* the push-to-talk hotkey, the VoicePushToTalk actor and its tasks
  phone,      \* phone control: gateway.nodes lists, armed.json and the clock
  replyRun    \* one runReplyAgent call: its parameters and what it did

vars == <<uni, params, pc, lanes, abortFired, run, hist, result, guardIn, guardOut,
          cwd, prevCwd, att, cmd, ptt, phone, replyRun>>

Runs == 1..MaxRuns

\* ---------------------------------------------------------------- strings
\* A string is a sequence of characters; " " is the only whitespace used.
RECURSIVE TrimStart(_)
TrimStart(s) == IF s # <<>> /\ Head(s) = " " THEN TrimStart(Tail(s)) ELSE s

RECURSIVE TrimEnd(_)
TrimEnd(s) ==
  IF s # <<>> /\ s[Len(s)] = " " THEN TrimEnd(SubSeq(s, 1, Len(s) - 1)) ELSE s

\* String.prototype.trim
Trim(s) == TrimEnd(TrimStart(s))

\* An optional string: [defined, text].
Undefined == [defined |-> FALSE, text |-> <<>>]
Str(s) == [defined |-> TRUE, text |-> s]

\* ------------------------------------------------------------------ lanes
\* resolveSessionLane / resolveGlobalLane: the lane a key names.
resolveSessionLane(key) == <<"session", key>>
resolveGlobalLane(lane) == <<"global", IF lane.defined /\ Trim(lane.text) # <<>>
                                        THEN Trim(lane.text) ELSE <<"m">>>>

\* params.sessionKey?.trim() || params.sessionId, ignoring the trim.
UntrimmedSessionLaneOf(p) ==
  resolveSessionLane(IF p.sessionKey.defined /\ p.sessionKey.text # <<>>
                     THEN p.sessionKey.text ELSE p.sessionId)

\* run.ts:57  resolveSessionLane(params.sessionKey?.trim() || params.sessionId)
SessionLaneOf(p) ==
  resolveSessionLane(IF p.sessionKey.defined /\ Trim(p.sessionKey.text) # <<>>
                     THEN Trim(p.sessionKey.text) ELSE p.sessionId)

\* A global lane of its own for every session.
GlobalLanePerSession(p) == <<"global", SessionLaneOf(p)[2]>>

\* A body that is enqueued into the session lane of its own run.
GlobalLaneInSessionLane(p) == SessionLaneOf(p)

\* run.ts:58  resolveGlobalLane(params.lane)
GlobalLaneOf(p) == resolveGlobalLane(p.lane)

\* A run that skips its session lane: its first lane is the global lane.
FirstLaneSkippingSession(p) == GlobalLaneOf(p)

\* run.ts:62  the lane runEmbeddedPiAgent enqueues the call into first.
FirstLaneOf(p) == SessionLaneOf(p)

IsSessionLane(k) == k[1] = "session"

\* The maximum concurrent count of a lane: one per session lane, the configured
\* count for a global lane.
LaneMax(k) == IF IsSessionLane(k) THEN 1 ELSE uni.globalMax

EmptyLane == [queue |-> <<>>, active |-> {}]

\* The state of lane k; a lane exists from its first use.
LaneAt(L, k) == IF k \in DOMAIN L THEN L[k] ELSE EmptyLane

\* enqueueCommandInLane(lane, task): the task joins the tail of the lane's queue.
Enqueue(L, k, r) ==
  [x \in DOMAIN L \cup {k} |->
     IF x = k THEN [LaneAt(L, k) EXCEPT !.queue = Append(@, r)] ELSE L[x]]

\* The lane starts its head task when fewer than its maximum are active.
CanDequeue(L, k, r) ==
  /\ k \in DOMAIN L
  /\ L[k].queue # <<>>
  /\ Head(L[k].queue) = r
  /\ Cardinality(L[k].active) < LaneMax(k)

Without(s, r) == SelectSeq(s, LAMBDA x : x # r)

Dequeue(L, k, r) ==
  [L EXCEPT ![k].queue = Without(@, r), ![k].active = @ \cup {r}]

\* The task's promise settled: the lane's slot is free again.
Release(L, k, r) == [L EXCEPT ![k].active = @ \ {r}]

\* ------------------------------------------------- context window guard
\* A guard that compares with <= and warns while it blocks.
evaluateInclusiveGuard(info, warnBelowTokens, hardMinTokens) ==
  [tokens      |-> info.tokens,
   source      |-> info.source,
   shouldWarn  |-> info.tokens <= warnBelowTokens,
   shouldBlock |-> info.tokens <= hardMinTokens]

\* evaluateContextWindowGuard({info, warnBelowTokens, hardMinTokens})
evaluateContextWindowGuard(info, warnBelowTokens, hardMinTokens) ==
  LET block == info.tokens < hardMinTokens IN
  [tokens      |-> info.tokens,
   source      |-> info.source,
   shouldWarn  |-> info.tokens < warnBelowTokens /\ ~block,
   shouldBlock |-> block]

\* A body that never blocks on the guard.
NeverBlocks(ctxGuard) == FALSE

\* run.ts:100  if (ctxGuard.shouldBlock) throw new FailoverError(...)
GuardBlocksRun(ctxGuard) == ctxGuard.shouldBlock

\* ------------------------------------------- error text classification
isContextOverflowError(m) == m \in {"context_overflow", "compaction_failure"}
isCompactionFailureError(m) == m = "compaction_failure"

\* classifyFailoverReason(text) -> reason | null
classifyFailoverReason(m) ==
  IF m \in {"rate_limit", "auth", "timeout", "server_error"} THEN m ELSE None

isFailoverErrorMessage(m) == classifyFailoverReason(m) # None

\* isFailoverAssistantError(lastAssistant)
isFailoverAssistantError(o) == isFailoverErrorMessage(o.assistantError)

NoLevel == 0

SetMax(S) == CHOOSE x \in S : \A y \in S : x >= y

\* pickFallbackThinkingLevel({message, attempted}): the next lower level of the
\* ladder that was not attempted yet, when the message rejects the level.
pickFallbackThinkingLevel(message, attempted) ==
  LET lower == {l \in 1..Len(ThinkLevels) :
                  l \notin attempted /\ \A a \in attempted : l < a}
  IN IF message = "unsupported_thinking_level" /\ lower # {}
     THEN SetMax(lower) ELSE NoLevel

\* --------------------------------------------------- credential rotation
\* Candidate positions are 1-based here: profileIndex = 1 is the code's 0.
Resolve(c, ok) == [candidate |-> c, ok |-> ok]

\* The while loop of advanceAuthProfile from nextIndex on; `unres` are the
\* candidates whose getApiKeyForModel call throws.
RECURSIVE AdvanceScan(_, _, _, _)
AdvanceScan(cands, nextIndex, explicit, unres) ==
  IF nextIndex > Len(cands)
  THEN [status |-> "exhausted", index |-> 0, resolves |-> <<>>]
  ELSE LET c == cands[nextIndex] IN
       IF c \notin unres
       THEN [status |-> "advanced", index |-> nextIndex,
             resolves |-> <<Resolve(c, TRUE)>>]
       ELSE IF c # NoProfile /\ c = explicit
       THEN [status |-> "threw", index |-> 0, resolves |-> <<Resolve(c, FALSE)>>]
       ELSE LET rest == AdvanceScan(cands, nextIndex + 1, explicit, unres)
            IN [rest EXCEPT !.resolves = <<Resolve(c, FALSE)>> \o @]

\* What a scan leaves in the run's locals (run.ts:159-163).
AfterScan(s, p, scan) ==
  [status   |-> scan.status,
   resolves |-> scan.resolves,
   run      |-> IF scan.status = "advanced"
                THEN [s EXCEPT !.profileIndex = scan.index,
                               !.lastProfileId = s.profileCandidates[scan.index],
                               !.thinkLevel = s.initialThinkLevel,
                               !.attemptedThinking = {}]
                ELSE s]

\* A rotation that starts over at the first candidate.
advanceFromFirst(s, p, unres) ==
  AfterScan(s, p, AdvanceScan(s.profileCandidates, 1, p.authProfileId, unres))

\* A rotation that passes over the next candidate without trying it.
advanceSkippingOne(s, p, unres) ==
  AfterScan(s, p, AdvanceScan(s.profileCandidates, s.profileIndex + 2,
                              p.authProfileId, unres))

\* A rotation that never finds a candidate.
advanceNever(s, p, unres) ==
  AfterScan(s, p, [status |-> "exhausted", index |-> 0, resolves |-> <<>>])

\* A rotation that keeps the thinking level and the attempted levels of the
\* profile it leaves.
advanceKeepingLevel(s, p, unres) ==
  LET adv == AfterScan(s, p, AdvanceScan(s.profileCandidates, s.profileIndex + 1,
                                        p.authProfileId, unres))
  IN [adv EXCEPT !.run.thinkLevel = s.thinkLevel,
                 !.run.attemptedThinking = s.attemptedThinking]

\* advanceAuthProfile(): [status, run, resolves]
advanceAuthProfile(s, p, unres) ==
  AfterScan(s, p, AdvanceScan(s.profileCandidates, s.profileIndex + 1,
                              p.authProfileId, unres))

\* ------------------------------------------------------------ run body
RunInit ==
  [profileCandidates |-> <<>>, profileIndex |-> 0, initialThinkLevel |-> 0,
   thinkLevel |-> 0, attemptedThinking |-> {}, lastProfileId |-> NoProfile]

\* The result of an attempt that settled without rejecting and reported nothing.
QuietOutcome ==
  [rejected |-> FALSE, aborted |-> FALSE, timedOut |-> FALSE,
   promptError |-> None, assistantError |-> None]

\* No attempt of the run has ended yet.
NoLast == [attempt |-> 0, o |-> QuietOutcome, unres |-> {}, before |-> RunInit]

HistInit ==
  [attempts |-> <<>>, marks |-> <<>>, resolves |-> <<>>, orderResolved |-> FALSE,
   guardBlocked |-> FALSE, abortedWhileQueued |-> FALSE, last |-> NoLast]

\* `undefined` for the status of an error.
NoStatus == 0

\* run.ts:358  the status given to a failure whose message reads as a timeout
REQUEST_TIMEOUT_STATUS == 408

\* The status a failover reason stands for, where it has one.
resolveFailoverStatus(reason) ==
  IF reason = "timeout" THEN REQUEST_TIMEOUT_STATUS ELSE NoStatus

\* Whether an error text reads as a timeout.
isTimeoutErrorMessage(message) == message = "timeout"

Pending ==
  [kind |-> "pending", errorType |-> None, reason |-> None, message |-> None,
   aborted |-> FALSE, errorKind |-> None, profileId |-> NoProfile, thinkLevel |-> 0,
   errorOf |-> NoProfile, payloads |-> None, status |-> NoStatus]

\* A wrapper: every error leaves the run as a FailoverError.
ThrownWrapped(errorType, reason, message, profileId) ==
  [Pending EXCEPT !.kind = "thrown", !.errorType = "FailoverError",
                  !.reason = reason, !.message = message, !.profileId = profileId]

\* throw <error>
Thrown(errorType, reason, message, profileId) ==
  [Pending EXCEPT !.kind = "thrown", !.errorType = errorType, !.reason = reason,
                  !.message = message, !.profileId = profileId]

\* throw err, the error getApiKeyForModel raised for `candidate`
CredentialError(candidate, profileId) ==
  [Thrown("credentialError", None, "credential_unresolved", profileId)
     EXCEPT !.errorOf = candidate]

\* A result that carries its payloads but not the meta.error tag.
ReturnedUntagged(aborted, errorKind, message, s) ==
  [Pending EXCEPT !.kind = "returned", !.aborted = aborted,
                  !.message = message, !.profileId = s.lastProfileId,
                  !.thinkLevel = s.thinkLevel,
                  !.payloads = IF errorKind # None THEN "soft_error" ELSE "built"]

\* return { payloads, meta: { agentMeta, aborted, error } }. The payloads are the
\* one literal isError payload of run.ts:238-245 ("soft_error") or what
\* buildEmbeddedRunPayloads made ("built").
Returned(aborted, errorKind, message, s) ==
  [Pending EXCEPT !.kind = "returned", !.aborted = aborted, !.errorKind = errorKind,
                  !.message = message, !.profileId = s.lastProfileId,
                  !.thinkLevel = s.thinkLevel,
                  !.payloads = IF errorKind # None THEN "soft_error" ELSE "built"]

Mark(op, profileId, reason) == [op |-> op, profileId |-> profileId, reason |-> reason]

\* The marks made while handling the outcome of the run's n-th attempt.
After(marks, n) ==
  [i \in 1..Len(marks) |->
     [op |-> marks[i].op, profileId |-> marks[i].profileId,
      reason |-> marks[i].reason, attempt |-> n]]

\* params.thinkLevel ?? "off"
InitialThinkLevel(p) == IF p.thinkLevel = NoLevel THEN 1 ELSE p.thinkLevel

\* (params.config?.agents?.defaults?.model?.fallbacks?.length ?? 0) > 0
FallbackConfigured(p) == p.fallbacks > 0

\* run.ts:64-178: from the start of the body to the first attempt. The inputs
\* are what the collaborators answer: resolveModel (modelKnown),
\* resolveContextWindowInfo (info), resolveAuthProfileOrder (order) and
\* getApiKeyForModel (it throws for the candidates in unres).
Prepare(p, modelKnown, info, order, unres) ==
  LET ctxGuard == evaluateContextWindowGuard(info, CONTEXT_WINDOW_WARN_BELOW_TOKENS,
                                             CONTEXT_WINDOW_HARD_MIN_TOKENS)
      guard == ctxGuard.shouldBlock
      explicitProfileId == p.authProfileId
      inOrder == \E i \in 1..Len(order) : order[i] = explicitProfileId
      profileCandidates == IF Len(order) > 0 THEN order ELSE <<NoProfile>>
      s0 == [RunInit EXCEPT !.profileCandidates = profileCandidates,
                            !.profileIndex = 1,
                            !.initialThinkLevel = InitialThinkLevel(p),
                            !.thinkLevel = InitialThinkLevel(p)]
      first == profileCandidates[1]
      adv == advanceAuthProfile(s0, p, unres)
      Out(ok, s, g, ordered, resolves, res) ==
        [ok |-> ok, run |-> s, guard |-> g, orderResolved |-> ordered,
         resolves |-> resolves, result |-> res]
  IN IF ~modelKnown
     THEN Out(FALSE, RunInit, FALSE, FALSE, <<>>,
              Thrown("Error", None, "unknown_model", NoProfile))
     ELSE IF GuardBlocksRun(ctxGuard)
     THEN Out(FALSE, RunInit, guard, FALSE, <<>>,
              Thrown("FailoverError", "unknown", "context_window_too_small", NoProfile))
     ELSE IF explicitProfileId # NoProfile /\ ~inOrder
     THEN Out(FALSE, RunInit, guard, TRUE, <<>>,
              Thrown("Error", None, "profile_not_configured", NoProfile))
     ELSE IF first \notin unres
     THEN Out(TRUE, [s0 EXCEPT !.lastProfileId = first], guard, TRUE,
              <<Resolve(first, TRUE)>>, Pending)
     ELSE IF first = explicitProfileId
     THEN Out(FALSE, s0, guard, TRUE, <<Resolve(first, FALSE)>>,
              CredentialError(first, NoProfile))
     ELSE IF adv.status = "advanced"
     THEN Out(TRUE, adv.run, guard, TRUE, <<Resolve(first, FALSE)>> \o adv.resolves,
              Pending)
     ELSE Out(FALSE, s0, guard, TRUE, <<Resolve(first, FALSE)>> \o adv.resolves,
              CredentialError(IF adv.status = "threw" THEN explicitProfileId
                              ELSE first, NoProfile))

Step(next, s, marks, resolves, res) ==
  [next |-> next, run |-> s, marks |-> marks, resolves |-> resolves, result |-> res]

\* A handler that records a failure for every prompt error.
PromptFailureMarksAlways(s, errorText) ==
  IF s.lastProfileId # NoProfile
  THEN <<Mark("failure", s.lastProfileId, "unknown")>> ELSE <<>>

\* run.ts:258-267: the failure a prompt error records against the profile.
PromptFailureMarks(s, errorText) ==
  IF classifyFailoverReason(errorText) # None
     /\ classifyFailoverReason(errorText) # "timeout"
     /\ s.lastProfileId # NoProfile
  THEN <<Mark("failure", s.lastProfileId, classifyFailoverReason(errorText))>>
  ELSE <<>>

\* A loop that takes the prompt-error branch also for an aborted attempt.
TakesPromptBranchWhenAborted(o) == o.promptError # None

\* run.ts:231  if (promptError && !aborted)
TakesPromptBranch(o) == o.promptError # None /\ ~o.aborted

\* A rotation rule that forgets the timeout.
ShouldRotateOnFailoverOnly(o) == ~o.aborted /\ isFailoverAssistantError(o)

\* run.ts:310  shouldRotate
ShouldRotate(o) == (~o.aborted /\ isFailoverAssistantError(o)) \/ o.timedOut

\* A reason that is never classified.
FailureReasonUnknown(o) == "unknown"

\* run.ts:314-317  the reason markAuthProfileFailure is given
FailureReason(o) ==
  IF o.timedOut \/ classifyFailoverReason(o.assistantError) = "timeout" THEN "timeout"
  ELSE IF classifyFailoverReason(o.assistantError) # None
  THEN classifyFailoverReason(o.assistantError)
  ELSE "unknown"

\* run.ts:231-287: the attempt ended with a prompt error and was not aborted.
PromptErrorStep(s, p, o, unres) ==
  LET errorText == o.promptError
      kind == IF isCompactionFailureError(errorText)
              THEN "compaction_failure" ELSE "context_overflow"
      promptFailoverReason == classifyFailoverReason(errorText)
      marks == PromptFailureMarks(s, errorText)
      rotate == isFailoverErrorMessage(errorText) /\ promptFailoverReason # "timeout"
      adv == advanceAuthProfile(s, p, unres)
      resolves == IF rotate THEN adv.resolves ELSE <<>>
      fallbackThinking == pickFallbackThinkingLevel(errorText, s.attemptedThinking)
  IN IF isContextOverflowError(errorText)
     THEN Step("return", s, <<>>, <<>>, Returned(FALSE, kind, errorText, s))
     ELSE IF rotate /\ adv.status = "advanced"
     THEN Step("continue", adv.run, marks, resolves, Pending)
     ELSE IF rotate /\ adv.status = "threw"
     THEN Step("throw", s, marks, resolves,
               CredentialError(p.authProfileId, s.lastProfileId))
     ELSE IF fallbackThinking # NoLevel
     THEN Step("continue", [s EXCEPT !.thinkLevel = fallbackThinking], marks,
               resolves, Pending)
     ELSE Step("throw", s, marks, resolves,
               Thrown("promptError", promptFailoverReason, errorText, s.lastProfileId))

\* run.ts:341-355: the message of the FailoverError: the assistant's error text
\* or, without one, "LLM request timed out." / "LLM request failed." (the
\* rate-limit and auth texts need an assistant error text to be chosen).
FailoverMessage(o) ==
  IF o.assistantError # None THEN o.assistantError
  ELSE IF o.timedOut THEN "timeout"
  ELSE "other"

\* run.ts:360  reason: assistantFailoverReason ?? "unknown"
FailoverReason(o) ==
  IF classifyFailoverReason(o.assistantError) # None
  THEN classifyFailoverReason(o.assistantError) ELSE "unknown"

\* run.ts:356-358
FailoverStatus(o) ==
  IF resolveFailoverStatus(FailoverReason(o)) # NoStatus
  THEN resolveFailoverStatus(FailoverReason(o))
  ELSE IF isTimeoutErrorMessage(FailoverMessage(o)) THEN REQUEST_TIMEOUT_STATUS
  ELSE NoStatus

\* run.ts:359-365  new FailoverError(message, { reason, provider, model,
\* profileId: lastProfileId, status })
FailoverError(o, s) ==
  [Thrown("FailoverError", FailoverReason(o), FailoverMessage(o), s.lastProfileId)
     EXCEPT !.status = FailoverStatus(o)]

\* Marks in the wrong order: used before good.
GoodMarksUsedFirst(s) ==
  IF s.lastProfileId # NoProfile
  THEN <<Mark("used", s.lastProfileId, None), Mark("good", s.lastProfileId, None)>>
  ELSE <<>>

\* run.ts:391-401: the profile of the accepted attempt is marked good, then
\* used.
GoodMarks(s) ==
  IF s.lastProfileId # NoProfile
  THEN <<Mark("good", s.lastProfileId, None), Mark("used", s.lastProfileId, None)>>
  ELSE <<>>

\* run.ts:289-413: no prompt error, or the attempt was aborted.
AssistantStep(s, p, o, unres) ==
  LET fallbackThinking ==
        pickFallbackThinkingLevel(o.assistantError, s.attemptedThinking)
      assistantFailoverReason == classifyFailoverReason(o.assistantError)
      shouldRotate == ShouldRotate(o)
      reason == FailureReason(o)
      failed == IF shouldRotate /\ s.lastProfileId # NoProfile
                THEN <<Mark("failure", s.lastProfileId, reason)>> ELSE <<>>
      adv == advanceAuthProfile(s, p, unres)
      resolves == IF shouldRotate THEN adv.resolves ELSE <<>>
      good == GoodMarks(s)
  IN IF fallbackThinking # NoLevel /\ ~o.aborted
     THEN Step("continue", [s EXCEPT !.thinkLevel = fallbackThinking], <<>>, <<>>,
               Pending)
     ELSE IF shouldRotate /\ adv.status = "advanced"
     THEN Step("continue", adv.run, failed, resolves, Pending)
     ELSE IF shouldRotate /\ adv.status = "threw"
     THEN Step("throw", s, failed, resolves,
               CredentialError(p.authProfileId, s.lastProfileId))
     ELSE IF shouldRotate /\ FallbackConfigured(p)
     THEN Step("throw", s, failed, resolves, FailoverError(o, s))
     ELSE Step("return", s, failed \o good, resolves,
               Returned(o.aborted, None, o.assistantError, s))

\* run.ts:185-414: what the loop does with the outcome of one attempt. Nothing
\* in the loop catches a rejection of runEmbeddedAttempt itself.
HandleOutcome(s, p, o, unres) ==
  IF o.rejected
  THEN Step("throw", s, <<>>, <<>>,
            Thrown("attemptError", None, "attempt_rejected", s.lastProfileId))
  ELSE IF TakesPromptBranch(o)
  THEN PromptErrorStep(s, p, o, unres)
  ELSE AssistantStep(s, p, o, unres)

\* An iteration that does not remember the level it attempts.
BeginAttemptForgetting(s) == s

\* run.ts:182  attemptedThinking.add(thinkLevel), at the top of each iteration.
BeginAttempt(s) == [s EXCEPT !.attemptedThinking = @ \cup {s.thinkLevel}]

\* The attempt that BeginAttempt(s) starts, as the history records it.
AttemptOf(s) ==
  [profileId |-> s.lastProfileId, index |-> s.profileIndex,
   thinkLevel |-> s.thinkLevel]

\* ---------------------------------------------------- working directory
\* The directory the process is in before any run, and the workspace the runs
\* are given (resolveUserPath(params.workspaceDir)).
OriginalCwd == "cwd"
Workspace == "workspace"

\* Nothing saved: the run is not inside its body.
NoPrevCwd == [run |-> None, attempt |-> None]

\* part_005:97  process.chdir(effectiveWorkspace)
EnterAttempt(dir) == Workspace

\* part_005:472-475  finally { process.chdir(prevCwd) } of the attempt
LeaveAttempt(saved) == saved.attempt

\* run.ts:415-417  finally { process.chdir(prevCwd) } of the run body
LeaveRun(saved) == saved.run

\* ------------------------------------------------------------- actions
Range(q) == {q[i] : i \in 1..Len(q)}

\* The candidates after the current one: the only ones advanceAuthProfile asks
\* the credential store about.
LaterCandidates(s) ==
  SubSeq(s.profileCandidates, s.profileIndex + 1, Len(s.profileCandidates))

\* The outcomes runEmbeddedAttempt can have for run r: it rejects, or it returns
\* a result. The timer's abortRun(true) sets aborted with timedOut, a fired
\* signal sets aborted, and the queue handle's abort() sets aborted alone.
Outcomes(r) ==
  {o \in [rejected : {FALSE}, aborted : BOOLEAN, timedOut : uni.timedOut,
          promptError : uni.promptErrors \cup {None},
          assistantError : uni.assistantErrors \cup {None}] :
     /\ o.timedOut => o.aborted
     /\ abortFired[r] => o.aborted
     /\ (o.aborted /\ ~o.timedOut /\ ~abortFired[r]) => uni.handleAbort}
  \cup {o \in {[rejected |-> TRUE, aborted |-> FALSE, timedOut |-> FALSE,
                  promptError |-> None, assistantError |-> None]} : uni.rejects}

\* A caller invokes runEmbeddedPiAgent(params); runs are numbered in the order
\* of these calls (run.ts:57-62).
SubmitRun(r) ==
  /\ r \in uni.runs
  /\ pc[r] = "idle"
  /\ \A q \in uni.runs : q < r => pc[q] # "idle"
  /\ \E p \in uni.params :
       /\ params' = [params EXCEPT ![r] = p]
       /\ lanes' = Enqueue(lanes, FirstLaneOf(p), r)
  /\ pc' = [pc EXCEPT ![r] = "session_queued"]
  /\ UNCHANGED <<uni, abortFired, run, hist, result, guardIn, guardOut, cwd, prevCwd, att, cmd,
                 ptt, phone, replyRun>>

\* A session-lane task that does not wait for the global lane: it enqueues the
\* body there and gives its session slot back at once.
SessionLaneStartNoWait(r) ==
  /\ pc[r] = "session_queued"
  /\ CanDequeue(lanes, FirstLaneOf(params[r]), r)
  /\ lanes' = Enqueue(Release(Dequeue(lanes, FirstLaneOf(params[r]), r),
                              FirstLaneOf(params[r]), r),
                      GlobalLaneOf(params[r]), r)
  /\ pc' = [pc EXCEPT ![r] = "global_queued"]
  /\ UNCHANGED <<uni, params, abortFired, run, hist, result, guardIn, guardOut, cwd, prevCwd, att, cmd,
                 ptt, phone, replyRun>>

\* The session lane starts the run's task, which enqueues the body in the
\* global lane (run.ts:62-63).
SessionLaneStart(r) ==
  /\ pc[r] = "session_queued"
  /\ CanDequeue(lanes, FirstLaneOf(params[r]), r)
  /\ lanes' = Enqueue(Dequeue(lanes, FirstLaneOf(params[r]), r),
                      GlobalLaneOf(params[r]), r)
  /\ pc' = [pc EXCEPT ![r] = "global_queued"]
  /\ UNCHANGED <<uni, params, abortFired, run, hist, result, guardIn, guardOut, cwd, prevCwd, att, cmd,
                 ptt, phone, replyRun>>

\* The global lane starts the body, which runs up to its first attempt or
\* throws before it (run.ts:64-185).
GlobalLaneStart(r) ==
  /\ pc[r] = "global_queued"
  /\ CanDequeue(lanes, GlobalLaneOf(params[r]), r)
  /\ lanes' = Dequeue(lanes, GlobalLaneOf(params[r]), r)
  /\ \E modelKnown \in uni.modelKnown, tokens \in uni.tokens,
        order \in uni.orders, unres \in uni.unres :
       /\ unres \subseteq Range(order) \cup {NoProfile}
       /\ LET out == Prepare(params[r], modelKnown,
                             [tokens |-> tokens, source |-> "model"], order, unres)
          IN /\ run' = [run EXCEPT ![r] = IF out.ok THEN BeginAttempt(out.run)
                                          ELSE out.run]
             /\ hist' = [hist EXCEPT
                           ![r].guardBlocked = out.guard,
                           ![r].orderResolved = out.orderResolved,
                           ![r].resolves = @ \o out.resolves,
                           ![r].attempts =
                              IF out.ok THEN Append(@, AttemptOf(out.run))
                              ELSE @]
             /\ result' = [result EXCEPT ![r] = out.result]
             /\ pc' = [pc EXCEPT ![r] = IF out.ok THEN "attempt" ELSE "body_done"]
             /\ cwd' = IF out.ok THEN EnterAttempt(cwd) ELSE cwd
             /\ prevCwd' = [prevCwd EXCEPT ![r] =
                              IF out.ok THEN [run |-> cwd, attempt |-> cwd]
                              ELSE NoPrevCwd]
  /\ UNCHANGED <<uni, params, abortFired, guardIn, guardOut, att, cmd,
                 ptt, phone, replyRun>>

\* runEmbeddedAttempt settled; run.ts:229-414 decide what comes next, and on
\* `continue` the next iteration starts the next attempt.
AttemptEnds(r) ==
  /\ pc[r] = "attempt"
  /\ \E o \in Outcomes(r), unres \in uni.unres :
       /\ unres \subseteq Range(LaterCandidates(run[r]))
       /\ LET st == HandleOutcome(run[r], params[r], o, unres)
              again == st.next = "continue"
          IN /\ st.resolves = <<>> => unres = {}
             /\ run' = [run EXCEPT ![r] = IF again THEN BeginAttempt(st.run) ELSE st.run]
             /\ hist' = [hist EXCEPT
                           ![r].marks = @ \o After(st.marks, Len(hist[r].attempts)),
                           ![r].last =
                              IF uni.observe
                              THEN [attempt |-> Len(hist[r].attempts), o |-> o,
                                    unres |-> unres, before |-> run[r]]
                              ELSE @,
                           ![r].resolves = @ \o st.resolves,
                           ![r].attempts =
                              IF again THEN Append(@, AttemptOf(st.run))
                              ELSE @]
             /\ result' = [result EXCEPT ![r] = st.result]
             /\ pc' = [pc EXCEPT ![r] = IF again THEN "attempt" ELSE "body_done"]
             /\ cwd' = IF again THEN EnterAttempt(LeaveAttempt(prevCwd[r]))
                        ELSE LeaveRun(prevCwd[r])
             /\ prevCwd' = [prevCwd EXCEPT ![r] =
                              IF again THEN [@ EXCEPT !.attempt = LeaveAttempt(prevCwd[r])]
                              ELSE NoPrevCwd]
  /\ UNCHANGED <<uni, params, lanes, abortFired, guardIn, guardOut, att, cmd,
                 ptt, phone, replyRun>>

\* The body's promise settled: the global lane frees the slot.
GlobalLaneRelease(r) ==
  /\ pc[r] = "body_done"
  /\ lanes' = Release(lanes, GlobalLaneOf(params[r]), r)
  /\ pc' = [pc EXCEPT ![r] = "global_done"]
  /\ UNCHANGED <<uni, params, abortFired, run, hist, result, guardIn, guardOut, cwd, prevCwd, att, cmd,
                 ptt, phone, replyRun>>

\* The session-lane task settled: the session lane frees the slot and the
\* caller's future settles.
SessionLaneRelease(r) ==
  /\ pc[r] = "global_done"
  /\ lanes' = Release(lanes, FirstLaneOf(params[r]), r)
  /\ pc' = [pc EXCEPT ![r] = "settled"]
  /\ UNCHANGED <<uni, params, abortFired, run, hist, result, guardIn, guardOut, cwd, prevCwd, att, cmd,
                 ptt, phone, replyRun>>

\* The caller's cancellation signal (params.abortSignal) fires.
FireAbort(r) ==
  /\ pc[r] \notin {"idle", "settled"}
  /\ ~abortFired[r]
  /\ abortFired' = [abortFired EXCEPT ![r] = TRUE]
  /\ hist' = [hist EXCEPT ![r].abortedWhileQueued =
                pc[r] \in {"session_queued", "global_queued"}]
  /\ UNCHANGED <<uni, params, pc, lanes, run, result, guardIn, guardOut, cwd, prevCwd, att, cmd,
                 ptt, phone, replyRun>>

\* A stand-alone call of evaluateContextWindowGuard.
EvaluateGuard ==
  /\ guardOut.source = None
  /\ guardOut' = evaluateContextWindowGuard(
                   [tokens |-> guardIn.tokens, source |-> "model"],
                   guardIn.warnBelowTokens, guardIn.hardMinTokens)
  /\ UNCHANGED <<uni, params, pc, lanes, abortFired, run, hist, result, guardIn,
               cwd, prevCwd, att, cmd,
                 ptt, phone, replyRun>>

\* The runs and the lanes.
Next ==
  \/ \E r \in Runs : SubmitRun(r)
  \/ \E r \in Runs : SessionLaneStart(r)
  \/ \E r \in Runs : GlobalLaneStart(r)
  \/ \E r \in Runs : AttemptEnds(r)
  \/ \E r \in Runs : GlobalLaneRelease(r)
  \/ \E r \in Runs : SessionLaneRelease(r)

\* The runs, the lanes and the callers' cancellation signals.
NextAbort ==
  \/ Next
  \/ \E r \in Runs : FireAbort(r)

\* ------------------------------------------------- runEmbeddedAttempt
\* No result object: the attempt has not returned one.
NoOutcome == [reported |-> FALSE, aborted |-> FALSE, timedOut |-> FALSE,
              promptError |-> FALSE]

\* A call of runEmbeddedAttempt that has not run its first statement. hasSignal
\* is params.abortSignal being given, fired is params.abortSignal.aborted.
AttemptInit(hasSignal, fired) ==
  [pc |-> "start", hasSignal |-> hasSignal, signal |-> fired,
   signalAt |-> IF fired THEN "before" ELSE None,
   prevCwd |-> None, lockHeld |-> FALSE, sessionOpened |-> FALSE,
   openedUnlocked |-> FALSE, aborted |-> FALSE, timedOut |-> FALSE,
   timerArmed |-> FALSE, timerFired |-> FALSE, listening |-> FALSE,
   active |-> FALSE, handleAborted |-> FALSE, controllerAborted |-> FALSE,
   sessionAborted |-> FALSE, outcome |-> NoOutcome, ended |-> None]

\* An abort path that flags every abort as a timeout.
abortRunTimingOut(a, isTimeout) ==
  [a EXCEPT !.aborted = TRUE, !.timedOut = TRUE,
            !.controllerAborted = TRUE, !.sessionAborted = TRUE]

\* part_005:326-331  abortRun(isTimeout = false)
abortRun(a, isTimeout) ==
  [a EXCEPT !.aborted = TRUE, !.timedOut = @ \/ isTimeout,
            !.controllerAborted = TRUE, !.sessionAborted = TRUE]

\* A forwarding that only listens and never looks at a signal already fired.
forwardListeningOnly(a) ==
  IF a.hasSignal THEN [a EXCEPT !.listening = TRUE] ELSE a

\* part_005:390-401  onAbort and its registration on params.abortSignal
forwardAbortSignal(a) ==
  IF ~a.hasSignal THEN a
  ELSE IF a.signal THEN abortRun(a, FALSE)
  ELSE [a EXCEPT !.listening = TRUE]

\* part_005:73-98: the workspace is made and entered, unless making it throws.
StartAttempt ==
  /\ att.pc = "start"
  /\ \E throws \in BOOLEAN :
       IF throws
       THEN /\ att' = [att EXCEPT !.pc = "ended", !.ended = "threw"]
            /\ cwd' = cwd
       ELSE /\ att' = [att EXCEPT !.pc = "workspace", !.prevCwd = cwd]
            /\ cwd' = EnterAttempt(cwd)
  /\ UNCHANGED <<uni, params, pc, lanes, abortFired, run, hist, result, guardIn,
                 guardOut, prevCwd, cmd,
                 ptt, phone, replyRun>>

\* part_005:98-229: skills, tools and the system prompt are prepared and the
\* session write lock is taken; a throw leaves through the outer finally.
AcquireSessionWriteLock ==
  /\ att.pc = "workspace"
  /\ \E throws \in BOOLEAN :
       IF throws
       THEN /\ att' = [att EXCEPT !.pc = "ended", !.ended = "threw"]
            /\ cwd' = att.prevCwd
       ELSE /\ att' = [att EXCEPT !.pc = "locked", !.lockHeld = TRUE]
            /\ cwd' = cwd
  /\ UNCHANGED <<uni, params, pc, lanes, abortFired, run, hist, result, guardIn,
                 guardOut, prevCwd, cmd,
                 ptt, phone, replyRun>>

\* part_005:231-322: the transcript is opened (SessionManager.open) and the
\* agent session created. prewarmSessionFile can throw before the transcript
\* is opened, the later calls after it.
OpenSession ==
  /\ att.pc = "locked"
  /\ \E how \in {"ok", "throws_before_open", "throws_after_open"} :
       att' = [att EXCEPT
                 !.pc = IF how = "ok" THEN "session" ELSE "teardown",
                 !.sessionOpened = how # "throws_before_open",
                 !.openedUnlocked = how # "throws_before_open" /\ ~att.lockHeld]
  /\ UNCHANGED <<uni, params, pc, lanes, abortFired, run, hist, result, guardIn,
                 guardOut, cwd, prevCwd, cmd,
                 ptt, phone, replyRun>>

\* part_005:324-401: the abort flags, the queue handle, the timer and the
\* forwarding of the caller's signal are set up, in this order.
ArmAbort ==
  /\ att.pc = "session"
  /\ att' = forwardAbortSignal([att EXCEPT !.pc = "prompting",
                                           !.aborted = att.signal,
                                           !.active = TRUE,
                                           !.timerArmed = TRUE])
  /\ UNCHANGED <<uni, params, pc, lanes, abortFired, run, hist, result, guardIn,
                 guardOut, cwd, prevCwd, cmd,
                 ptt, phone, replyRun>>

\* The caller fires params.abortSignal; a registered listener runs onAbort
\* (once: true).
AbortSignalFires ==
  /\ att.hasSignal /\ ~att.signal
  /\ att.pc # "ended"
  /\ att' = IF att.listening
            THEN abortRun([att EXCEPT !.signal = TRUE, !.signalAt = att.pc,
                                      !.listening = FALSE], FALSE)
            ELSE [att EXCEPT !.signal = TRUE, !.signalAt = att.pc]
  /\ UNCHANGED <<uni, params, pc, lanes, abortFired, run, hist, result, guardIn,
                 guardOut, cwd, prevCwd, cmd,
                 ptt, phone, replyRun>>

\* part_005:372-388: the timer set for params.timeoutMs expires.
AbortTimerFires ==
  /\ att.timerArmed
  /\ att' = abortRun([att EXCEPT !.timerArmed = FALSE, !.timerFired = TRUE], TRUE)
  /\ UNCHANGED <<uni, params, pc, lanes, abortFired, run, hist, result, guardIn,
                 guardOut, cwd, prevCwd, cmd,
                 ptt, phone, replyRun>>

\* part_005:361-369: someone aborts the run through its registered queue
\* handle (abort: abortRun).
QueueHandleAbort ==
  /\ att.active /\ ~att.handleAborted
  /\ att' = abortRun([att EXCEPT !.handleAborted = TRUE], FALSE)
  /\ UNCHANGED <<uni, params, pc, lanes, abortFired, run, hist, result, guardIn,
                 guardOut, cwd, prevCwd, cmd,
                 ptt, phone, replyRun>>

\* A finally that clears the timer and the listener and leaves the queue
\* handle registered.
clearKeepingActiveRun(a) == [a EXCEPT !.timerArmed = FALSE, !.listening = FALSE]

\* part_005:429-435  finally { clearTimeout; unsubscribe;
\* clearActiveEmbeddedRun; removeEventListener }
clearAfterPrompt(a) ==
  [a EXCEPT !.timerArmed = FALSE, !.listening = FALSE, !.active = FALSE]

\* part_005:403-465: the prompt settles and the inner finally clears the timer,
\* the queue handle and the listener; then the result object is built, unless
\* waitForCompactionRetry threw something that is not an abort.
PromptSettles ==
  /\ att.pc = "prompting"
  /\ \E how \in {"ok", "prompt_error", "throws"} :
       att' = [clearAfterPrompt(att) EXCEPT
                 !.pc = "teardown",
                 !.outcome = IF how = "throws" THEN NoOutcome
                             ELSE [reported |-> TRUE, aborted |-> att.aborted,
                                   timedOut |-> att.timedOut,
                                   promptError |-> how = "prompt_error"]]
  /\ UNCHANGED <<uni, params, pc, lanes, abortFired, run, hist, result, guardIn,
                 guardOut, cwd, prevCwd, cmd,
                 ptt, phone, replyRun>>

\* part_005:466-476: flushPendingToolResults, dispose, then the release of the
\* lock; when one of the first two throws, the release is not reached. The
\* outer finally restores the working directory either way.
TearDown ==
  /\ att.pc = "teardown"
  /\ \E throws \in BOOLEAN :
       att' = [att EXCEPT
                 !.pc = "ended",
                 !.lockHeld = throws,
                 !.ended = IF throws \/ ~att.outcome.reported
                           THEN "threw" ELSE "returned"]
  /\ cwd' = att.prevCwd
  /\ UNCHANGED <<uni, params, pc, lanes, abortFired, run, hist, result, guardIn,
                 guardOut, prevCwd, cmd,
                 ptt, phone, replyRun>>

\* One attempt, its timer, its caller and its queue handle.
NextAttempt ==
  \/ StartAttempt
  \/ AcquireSessionWriteLock
  \/ OpenSession
  \/ ArmAbort
  \/ AbortSignalFires
  \/ AbortTimerFires
  \/ QueueHandleAbort
  \/ PromptSettles
  \/ TearDown

\* ------------------------------------------------------ handleCommands
\* `null`: the handler does not handle the message / no result yet.
NoResult == [shouldContinue |-> TRUE, reply |-> None, handled |-> FALSE]

\* { shouldContinue: false } with or without a reply.
Handled(reply) == [shouldContinue |-> FALSE, reply |-> reply, handled |-> TRUE]

\* commandBodyNormalized === text, for a one-word text
Is(body, text) == body = <<text>>

\* normalized.startsWith(text + " ")
StartsWithWord(body, text) == Len(body) > 1 /\ body[1] = text

\* A /help that answers whoever asks.
handleHelpForAnyone(p, allowTextCommands) ==
  IF ~allowTextCommands \/ ~Is(p.commandBodyNormalized, "/help") THEN NoResult
  ELSE Handled("help")

\* commands-info.ts:7-20
handleHelpCommand(p, allowTextCommands) ==
  IF ~allowTextCommands THEN NoResult
  ELSE IF ~Is(p.commandBodyNormalized, "/help") THEN NoResult
  ELSE IF ~p.isAuthorizedSender THEN Handled(None)
  ELSE Handled("help")

\* commands-info.ts:22-35
handleCommandsListCommand(p, allowTextCommands) ==
  IF ~allowTextCommands THEN NoResult
  ELSE IF ~Is(p.commandBodyNormalized, "/commands") THEN NoResult
  ELSE IF ~p.isAuthorizedSender THEN Handled(None)
  ELSE Handled("commands")

\* commands-info.ts:37-66
handleStatusCommand(p, allowTextCommands) ==
  IF ~allowTextCommands THEN NoResult
  ELSE IF ~(p.hasStatusDirective \/ Is(p.commandBodyNormalized, "/status"))
  THEN NoResult
  ELSE IF ~p.isAuthorizedSender THEN Handled(None)
  ELSE Handled("status")

\* commands-info.ts:68-79
handleContextCommand(p, allowTextCommands) ==
  IF ~allowTextCommands THEN NoResult
  ELSE IF ~Is(p.commandBodyNormalized, "/context")
          /\ ~StartsWithWord(p.commandBodyNormalized, "/context")
  THEN NoResult
  ELSE IF ~p.isAuthorizedSender THEN Handled(None)
  ELSE Handled("context")

\* commands-info.ts:81-108
handleWhoamiCommand(p, allowTextCommands) ==
  IF ~allowTextCommands THEN NoResult
  ELSE IF ~Is(p.commandBodyNormalized, "/whoami") THEN NoResult
  ELSE IF ~p.isAuthorizedSender THEN Handled(None)
  ELSE Handled("whoami")

\* The handlers of HANDLERS whose files are not among the sources (bash,
\* activation, send policy, restart, config, debug, stop, compact, abort
\* trigger): none of them takes one of the messages modelled here.
OtherHandler(p, allowTextCommands) == NoResult

\* part_007:27-42  HANDLERS
HANDLERS ==
  <<"bash", "activation", "sendPolicy", "restart", "help", "commandsList",
    "status", "context", "whoami", "config", "debug", "stop", "compact",
    "abortTrigger">>

CallHandler(name, p, allowTextCommands) ==
  CASE name = "help" -> handleHelpCommand(p, allowTextCommands)
    [] name = "commandsList" -> handleCommandsListCommand(p, allowTextCommands)
    [] name = "status" -> handleStatusCommand(p, allowTextCommands)
    [] name = "context" -> handleContextCommand(p, allowTextCommands)
    [] name = "whoami" -> handleWhoamiCommand(p, allowTextCommands)
    [] OTHER -> OtherHandler(p, allowTextCommands)

\* part_007:61-64: the result of the first handler from position i on that
\* returns one.
RECURSIVE FirstHandled(_, _, _)
FirstHandled(i, p, allowTextCommands) ==
  IF i > Len(HANDLERS) THEN NoResult
  ELSE IF CallHandler(HANDLERS[i], p, allowTextCommands).handled
  THEN CallHandler(HANDLERS[i], p, allowTextCommands)
  ELSE FirstHandled(i + 1, p, allowTextCommands)

\* part_007:44-79. p.allowTextCommands is what shouldHandleTextCommands
\* answers and p.sendPolicy what resolveSendPolicy answers.
handleCommands(p) ==
  LET resetRequested == Is(p.commandBodyNormalized, "/reset")
                        \/ Is(p.commandBodyNormalized, "/new")
      first == FirstHandled(1, p, p.allowTextCommands)
  IN IF resetRequested /\ ~p.isAuthorizedSender THEN Handled(None)
     ELSE IF first.handled THEN first
     ELSE IF p.sendPolicy = "deny" THEN Handled(None)
     ELSE [shouldContinue |-> TRUE, reply |-> None, handled |-> TRUE]

\* The messages: the command-only ones, /context with an argument, a word
\* that only starts like a command, and plain text.
CommandBodies ==
  {<<"/help">>, <<"/commands">>, <<"/status">>, <<"/context">>, <<"/whoami">>,
   <<"/reset">>, <<"/new">>, <<"/context", "detail">>, <<"/contextual">>,
   <<"hello">>}

CommandParams ==
  [commandBodyNormalized : CommandBodies, isAuthorizedSender : BOOLEAN,
   allowTextCommands : BOOLEAN, hasStatusDirective : BOOLEAN,
   sendPolicy : {"allow", "deny"}]

NoCommand ==
  [params |-> [commandBodyNormalized |-> <<>>, isAuthorizedSender |-> FALSE,
               allowTextCommands |-> FALSE, hasStatusDirective |-> FALSE,
               sendPolicy |-> "allow"],
   result |-> NoResult]

\* A caller awaits handleCommands(params).
HandleCommands ==
  /\ ~cmd.result.handled
  /\ cmd' = [cmd EXCEPT !.result = handleCommands(cmd.params)]
  /\ UNCHANGED <<uni, params, pc, lanes, abortFired, run, hist, result, guardIn,
                 guardOut, cwd, prevCwd, att,
                 ptt, phone, replyRun>>

\* ----------------------------------------------------------- push to talk
\* VoicePushToTalkHotkey lives on the main actor and spawns one task per edge
\* of the right Option key; begin() and end() are methods of the
\* VoicePushToTalk actor, so each runs alone between two of its awaits and
\* the other may run while it is suspended at one.

RightOption == 61

Presses == 1..MaxPresses

\* begin[i] and end[i] are the tasks spawned by the i-th press and release.
NoPushToTalk ==
  [keyDown |-> FALSE, presses |-> 0, optionDown |-> FALSE, active |-> FALSE,
   voiceWakeSupported |-> FALSE, granted |-> FALSE, triggerChime |-> FALSE,
   recognitionThrows |-> FALSE, begin |-> [i \in Presses |-> None],
   end |-> [i \in Presses |-> None],
   isCapturing |-> FALSE, activeConfig |-> FALSE, triggerChimePlayed |-> FALSE,
   engineRunning |-> FALSE]

\* What the platform answers: whether voice wake is
\* supported, whether the permissions are granted, whether the configuration
\* has a trigger chime and whether the recognizer can start.
PushToTalkInit(supported, granted, chime, throws) ==
  [NoPushToTalk EXCEPT !.voiceWakeSupported = supported, !.granted = granted,
                       !.triggerChime = chime, !.recognitionThrows = throws]

\* updateModifierState: the hotkey's fields after a modifier event; i is the
\* press the event belongs to, whose task it may spawn.
updateModifierState(h, keyCode, optionFlag, i) ==
  LET optionDown == IF keyCode = RightOption THEN optionFlag ELSE h.optionDown
      chordActive == optionDown
  IN  IF chordActive /\ ~h.active
        THEN [h EXCEPT !.optionDown = optionDown, !.active = TRUE,
                       !.begin[i] = "spawned"]
      ELSE IF ~chordActive /\ h.active
        THEN [h EXCEPT !.optionDown = optionDown, !.active = FALSE,
                       !.end[i] = "spawned"]
      ELSE [h EXCEPT !.optionDown = optionDown]

PttUnchanged ==
  UNCHANGED <<uni, params, pc, lanes, abortFired, run, hist, result, guardIn,
              guardOut, cwd, prevCwd, att, cmd, phone, replyRun>>

\* The right Option key goes down.
KeyDown ==
  /\ ~ptt.keyDown
  /\ ptt.presses < MaxPresses
  /\ ptt' = [updateModifierState(ptt, RightOption, TRUE, ptt.presses + 1)
               EXCEPT !.keyDown = TRUE, !.presses = @ + 1]
  /\ PttUnchanged

\* The right Option key is released.
KeyUp ==
  /\ ptt.keyDown
  /\ ptt' = [updateModifierState(ptt, RightOption, FALSE, ptt.presses)
               EXCEPT !.keyDown = FALSE]
  /\ PttUnchanged

\* begin() up to its first await: the two guards, then the permission
\* request.
BeginStarts(i) ==
  /\ ptt.begin[i] = "spawned"
  /\ ptt' = [ptt EXCEPT !.begin[i] =
               IF ~ptt.voiceWakeSupported THEN "done"
               ELSE IF ptt.isCapturing THEN "done"
               ELSE "permissions"]
  /\ PttUnchanged

\* ensureVoiceWakePermissions answers; begin() goes on to read the
\* configuration on the main actor.
BeginPermissionsAnswered(i) ==
  /\ ptt.begin[i] = "permissions"
  /\ ptt' = [ptt EXCEPT !.begin[i] = IF ptt.granted THEN "config" ELSE "done"]
  /\ PttUnchanged

\* The configuration is back: begin() marks the capture as running.
BeginCaptures(i) ==
  /\ ptt.begin[i] = "config"
  /\ ptt' = [ptt EXCEPT !.activeConfig = TRUE, !.isCapturing = TRUE,
                        !.triggerChimePlayed = ptt.triggerChime,
                        !.begin[i] = IF ptt.triggerChime THEN "chime" ELSE "pause"]
  /\ PttUnchanged

BeginChimePlayed(i) ==
  /\ ptt.begin[i] = "chime"
  /\ ptt' = [ptt EXCEPT !.begin[i] = "pause"]
  /\ PttUnchanged

BeginWakeWordPaused(i) ==
  /\ ptt.begin[i] = "pause"
  /\ ptt' = [ptt EXCEPT !.begin[i] = "overlay"]
  /\ PttUnchanged

\* The overlay is shown; startRecognition starts the audio engine or throws.
BeginStartsRecognition(i) ==
  /\ ptt.begin[i] = "overlay"
  /\ ptt' = IF ptt.recognitionThrows
              THEN [ptt EXCEPT !.begin[i] = "dismiss"]
              ELSE [ptt EXCEPT !.engineRunning = TRUE, !.begin[i] = "done"]
  /\ PttUnchanged

\* The catch block of begin(), after the overlay was dismissed.
BeginGivesUp(i) ==
  /\ ptt.begin[i] = "dismiss"
  /\ ptt' = [ptt EXCEPT !.isCapturing = FALSE, !.begin[i] = "done"]
  /\ PttUnchanged

\* end() up to its first await: the guard, then the recognizer and the audio
\* engine are stopped.
EndStarts(i) ==
  /\ ptt.end[i] = "spawned"
  /\ ptt' = IF ~ptt.isCapturing
              THEN [ptt EXCEPT !.end[i] = "done"]
              ELSE [ptt EXCEPT !.isCapturing = FALSE, !.engineRunning = FALSE,
                               !.end[i] = IF ptt.activeConfig THEN "present"
                                       ELSE "forward"]
  /\ PttUnchanged

EndForwardConfigRead(i) ==
  /\ ptt.end[i] = "forward"
  /\ ptt' = [ptt EXCEPT !.end[i] = "present"]
  /\ PttUnchanged

\* The overlay showed the final text; end() forgets the configuration.
EndPresented(i) ==
  /\ ptt.end[i] = "present"
  /\ ptt' = [ptt EXCEPT !.activeConfig = FALSE, !.triggerChimePlayed = FALSE,
                        !.end[i] = "cooldown"]
  /\ PttUnchanged

EndCooledDown(i) ==
  /\ ptt.end[i] = "cooldown"
  /\ ptt' = [ptt EXCEPT !.end[i] = "refresh"]
  /\ PttUnchanged

EndRefreshed(i) ==
  /\ ptt.end[i] = "refresh"
  /\ ptt' = [ptt EXCEPT !.end[i] = "done"]
  /\ PttUnchanged

NextPushToTalk ==
  \/ KeyDown
  \/ KeyUp
  \/ \E i \in Presses : BeginStarts(i)
  \/ \E i \in Presses : BeginPermissionsAnswered(i)
  \/ \E i \in Presses : BeginCaptures(i)
  \/ \E i \in Presses : BeginChimePlayed(i)
  \/ \E i \in Presses : BeginWakeWordPaused(i)
  \/ \E i \in Presses : BeginStartsRecognition(i)
  \/ \E i \in Presses : BeginGivesUp(i)
  \/ \E i \in Presses : EndStarts(i)
  \/ \E i \in Presses : EndForwardConfigRead(i)
  \/ \E i \in Presses : EndPresented(i)
  \/ \E i \in Presses : EndCooledDown(i)
  \/ \E i \in Presses : EndRefreshed(i)

\* ---------------------------------------------------------- phone control
\* The /phone command and the expiry service of the phone-control plugin.
\* gateway.nodes.allowCommands and denyCommands are kept as sets (every read
\* and write goes through uniqSorted); armed.json is the record `armed`.

MinuteMs == 60000

DefaultDurationMs == 10 * MinuteMs

GROUP_COMMANDS ==
  [camera |-> {"camera.snap", "camera.clip"},
   screen |-> {"screen.record"},
   writes |-> {"calendar.add", "contacts.add", "reminders.add"},
   flashlight |-> {"flashlight.on", "flashlight.off"}]

resolveCommandsForGroup(group) ==
  IF group = "all"
    THEN UNION {GROUP_COMMANDS[g] : g \in DOMAIN GROUP_COMMANDS}
    ELSE GROUP_COMMANDS[group]

\* parseGroup: the group named by the second word, or None.
parseGroup(raw) ==
  IF raw \in (DOMAIN GROUP_COMMANDS) \cup {"all"} THEN raw ELSE None

\* The null of parseDurationMs; no duration it accepts is zero.
NoDuration == 0

\* parseDurationMs, for a duration given in minutes ("2m"): null when the
\* word is missing (0 here) or the number is not positive.
parseDurationMs(minutes) ==
  IF minutes <= 0 THEN NoDuration ELSE minutes * MinuteMs

\* readArmState when armed.json does not exist.
NoArmState ==
  [exists |-> FALSE, expiresAtMs |-> 0, group |-> None, addedToAllow |-> {},
   removedFromDeny |-> {}]

NoTick ==
  [ticked |-> FALSE, now |-> 0, allowCommands |-> {}, denyCommands |-> {},
   armed |-> NoArmState]

NoPhone ==
  [allowCommands |-> {}, denyCommands |-> {}, armed |-> NoArmState, now |-> 0,
   before |-> [allowCommands |-> {}, denyCommands |-> {}], last |-> None,
   seen |-> NoTick]

PhoneInit(allow, deny) ==
  [NoPhone EXCEPT !.allowCommands = allow, !.denyCommands = deny,
                  !.before = [allowCommands |-> allow, denyCommands |-> deny]]

\* disarmNow: undo what the state file recorded and remove the file.
disarmNow(ph) ==
  IF ~ph.armed.exists
    THEN ph
    ELSE [ph EXCEPT !.allowCommands = @ \ ph.armed.addedToAllow,
                    !.denyCommands = @ \cup ph.armed.removedFromDeny,
                    !.armed = NoArmState]

\* The arm branch of the command handler: patch both lists and write the
\* state file, whatever the file held before.
armNow(ph, group, minutes) ==
  LET parsed == parseDurationMs(minutes)
      durationMs == IF parsed = NoDuration THEN DefaultDurationMs ELSE parsed
      commands == resolveCommandsForGroup(group)
      addedToAllow == commands \ ph.allowCommands
      removedFromDeny == commands \cap ph.denyCommands
  IN  [ph EXCEPT !.allowCommands = @ \cup commands,
                 !.denyCommands = @ \ commands,
                 !.armed = [exists |-> TRUE, expiresAtMs |-> ph.now + durationMs,
                            group |-> group, addedToAllow |-> addedToAllow,
                            removedFromDeny |-> removedFromDeny]]

\* The handler of /phone: help and status only read; arm without a known
\* group answers with the usage text.
handlePhone(ph, action, rawGroup, minutes) ==
  IF action = "disarm" THEN disarmNow(ph)
  ELSE IF action = "arm" /\ parseGroup(rawGroup) # None
    THEN armNow(ph, parseGroup(rawGroup), minutes)
  ELSE ph

\* A tick which disarms only once the expiry time is behind the clock.
tickStrictlyAfter(ph) ==
  IF ~ph.armed.exists THEN ph
  ELSE IF ph.now <= ph.armed.expiresAtMs THEN ph
  ELSE disarmNow(ph)

\* tick of the expiry service.
tick(ph) ==
  IF ~ph.armed.exists THEN ph
  ELSE IF ph.now < ph.armed.expiresAtMs THEN ph
  ELSE disarmNow(ph)

PhoneActions == {"status", "arm", "disarm"}

PhoneGroups == {"camera", "screen", "lights"}

PhoneMinutes == 0..1

PhoneConfigs ==
  {PhoneInit({}, {}),
   PhoneInit({"camera.snap"}, {}),
   PhoneInit({}, {"camera.clip", "screen.record"})}

PhoneUnchanged ==
  UNCHANGED <<uni, params, pc, lanes, abortFired, run, hist, result, guardIn,
              guardOut, cwd, prevCwd, att, cmd, ptt, replyRun>>

\* One /phone command.  `before` keeps the lists as they were when an
\* unarmed phone was armed.
PhoneCommand ==
  /\ \E action \in PhoneActions, rawGroup \in PhoneGroups, minutes \in PhoneMinutes :
       LET after == handlePhone(phone, action, rawGroup, minutes)
           firstArm == ~phone.armed.exists /\ after.armed.exists
       IN  phone' = [after EXCEPT
                       !.before = IF firstArm
                                    THEN [allowCommands |-> phone.allowCommands,
                                          denyCommands |-> phone.denyCommands]
                                    ELSE @,
                       !.last = action,
                       !.seen = NoTick]
  /\ PhoneUnchanged

\* The expiry service runs tick, at start-up and every 15 seconds after.
PhoneTick ==
  /\ phone' = [tick(phone) EXCEPT
                 !.last = "tick",
                 !.seen = [ticked |-> TRUE, now |-> phone.now,
                           allowCommands |-> phone.allowCommands,
                           denyCommands |-> phone.denyCommands,
                           armed |-> phone.armed]]
  /\ PhoneUnchanged

\* Date.now() moves on.
ClockAdvances ==
  /\ phone.now < MaxClock * MinuteMs
  /\ phone' = [phone EXCEPT !.now = @ + MinuteMs, !.last = "clock",
                            !.seen = NoTick]
  /\ PhoneUnchanged

NextPhone ==
  \/ PhoneCommand
  \/ PhoneTick
  \/ ClockAdvances

\* ---------------------------------------------------------- runReplyAgent
\* The head of runReplyAgent: a message for a session that is already
\* running is steered into the running turn or queued as a follow-up; only
\* otherwise does the function go on to the agent turn.

NoReplyOutcome ==
  [done |-> FALSE, returned |-> None, steerCalls |-> 0, enqueued |-> 0,
   saved |-> 0, cleanups |-> 0, agentTurns |-> 0, runComplete |-> FALSE]

ReplyParams ==
  [shouldSteer : BOOLEAN, shouldFollowup : BOOLEAN, isActive : BOOLEAN,
   isStreaming : BOOLEAN, queueMode : {"steer", "followup", "interrupt"},
   steerAccepted : BOOLEAN, hasSessionEntry : BOOLEAN, hasStorePath : BOOLEAN,
   turnReplies : {TRUE}]

NoReply ==
  [params |-> [shouldSteer |-> FALSE, shouldFollowup |-> FALSE,
               isActive |-> FALSE, isStreaming |-> FALSE, queueMode |-> "steer",
               steerAccepted |-> FALSE, hasSessionEntry |-> FALSE,
               hasStorePath |-> FALSE, turnReplies |-> TRUE],
   out |-> NoReplyOutcome]

\* queueEmbeddedPiMessage is called, and with what answer.
SteerAttempted(p) == p.shouldSteer /\ p.isStreaming

SteeredAway(p) == SteerAttempted(p) /\ p.steerAccepted /\ ~p.shouldFollowup

\* A head which queues only when a follow-up is wanted.
QueuesFollowupWhenWanted(p) == p.isActive /\ p.shouldFollowup

\* The condition of the second early return.
QueuesFollowup(p) ==
  p.isActive /\ (p.shouldFollowup \/ p.queueMode = "steer")

\* The session entry is touched and, with a store path, the store is saved.
SavesStore(p) == IF p.hasSessionEntry /\ p.hasStorePath THEN 1 ELSE 0

\* What one call does, from its parameters.
runReplyAgent(p) ==
  LET steerCalls == IF SteerAttempted(p) THEN 1 ELSE 0
  IN  IF SteeredAway(p)
        THEN [NoReplyOutcome EXCEPT !.done = TRUE, !.returned = "undefined",
                                    !.steerCalls = steerCalls,
                                    !.saved = SavesStore(p), !.cleanups = 1]
      ELSE IF QueuesFollowup(p)
        THEN [NoReplyOutcome EXCEPT !.done = TRUE, !.returned = "undefined",
                                    !.steerCalls = steerCalls, !.enqueued = 1,
                                    !.saved = SavesStore(p), !.cleanups = 1]
      ELSE [NoReplyOutcome EXCEPT !.done = TRUE,
                                  !.returned = IF p.turnReplies THEN "payload"
                                               ELSE "undefined",
                                  !.steerCalls = steerCalls, !.agentTurns = 1,
                                  !.runComplete = TRUE]

RunReplyAgent ==
  /\ ~replyRun.out.done
  /\ replyRun' = [replyRun EXCEPT !.out = runReplyAgent(replyRun.params)]
  /\ UNCHANGED <<uni, params, pc, lanes, abortFired, run, hist, result, guardIn,
                 guardOut, cwd, prevCwd, att, cmd, ptt, phone>>

\* ------------------------------------------------------- specifications
NoParams ==
  [sessionKey |-> Undefined, sessionId |-> <<>>, lane |-> Undefined,
   authProfileId |-> NoProfile, thinkLevel |-> NoLevel, fallbacks |-> 0]

NoGuard == [tokens |-> 0, source |-> None, shouldWarn |-> FALSE, shouldBlock |-> FALSE]

\* The first n profiles in store order, for each n.
PrefixOrders == {[i \in 1..n |-> i] : n \in 0..NumProfiles}

InitRuns(u) ==
  /\ uni = u
  /\ params = [r \in Runs |-> NoParams]
  /\ pc = [r \in Runs |-> "idle"]
  /\ lanes = << >>
  /\ abortFired = [r \in Runs |-> FALSE]
  /\ run = [r \in Runs |-> RunInit]
  /\ hist = [r \in Runs |-> HistInit]
  /\ result = [r \in Runs |-> Pending]
  /\ cwd = OriginalCwd
  /\ prevCwd = [r \in Runs |-> NoPrevCwd]

InitState(u) ==
  /\ InitRuns(u)
  /\ att = AttemptInit(FALSE, FALSE)
  /\ cmd = NoCommand
  /\ ptt = NoPushToTalk
  /\ phone = NoPhone
  /\ replyRun = NoReply
  /\ guardIn = [tokens |-> 0, warnBelowTokens |-> 0, hardMinTokens |-> 0]
  /\ guardOut = NoGuard

\* Session parameters: two spellings of session "a" and the session "s", in
\* the default global lane "m" under three spellings.
LaneParams ==
  {[NoParams EXCEPT !.sessionKey = k[1], !.sessionId = k[2], !.lane = k[3]] :
     k \in {<<Str(<<"a">>), <<"s">>, Undefined>>,
            <<Str(<<" ", "a">>), <<"s">>, Str(<<" ">>)>>,
            <<Str(<<" ">>), <<"s">>, Str(<<"m", " ">>)>>}}

\* Concurrent runs over two sessions: every run has two candidate profiles
\* and starts at thinking level off.
LaneUniverse(globalMax) ==
  [runs |-> Runs, globalMax |-> globalMax, params |-> LaneParams,
   modelKnown |-> {TRUE}, tokens |-> {CONTEXT_WINDOW_WARN_BELOW_TOKENS},
   orders |-> {<<1, 2>>}, unres |-> {{}},
   promptErrors |-> {"rate_limit"}, assistantErrors |-> {},
   timedOut |-> {FALSE}, handleAbort |-> FALSE, rejects |-> FALSE,
   observe |-> FALSE]

Init == \E globalMax \in 1..2 : InitState(LaneUniverse(globalMax))

Spec == Init /\ [][Next]_vars

\* Two runs of one session whose callers may cancel them at any time.
AbortUniverse ==
  [LaneUniverse(1) EXCEPT !.runs = {1, 2},
                          !.params = {[NoParams EXCEPT !.sessionId = <<"s">>]},
                          !.tokens = {CONTEXT_WINDOW_HARD_MIN_TOKENS - 1,
                                      CONTEXT_WINDOW_WARN_BELOW_TOKENS},
                          !.unres = {{}, {1}},
                          !.rejects = TRUE]

InitAbort == InitState(AbortUniverse)

SpecAbort == InitAbort /\ [][NextAbort]_vars

\* The lanes when every step that can happen does happen: the callers submit,
\* the lanes start the tasks they can start, every attempt settles and the
\* lanes free the slots of settled tasks. Every run has one candidate profile
\* and its attempt succeeds.
FairLaneUniverse(globalMax) ==
  [LaneUniverse(globalMax) EXCEPT !.orders = {<<1>>}, !.promptErrors = {}]

InitFair == \E globalMax \in 1..2 : InitState(FairLaneUniverse(globalMax))

SpecFair == InitFair /\ [][Next]_vars /\ WF_vars(Next)

\* One run, with the inputs of the body drawn from their full sets.
RunParams ==
  {[NoParams EXCEPT !.sessionId = <<"s">>, !.authProfileId = a, !.thinkLevel = t,
                    !.fallbacks = f] :
     a \in {NoProfile} \cup Profiles, t \in {NoLevel, 2}, f \in 0..1}

RunUniverse ==
  [runs |-> {1}, globalMax |-> 1, params |-> RunParams,
   modelKnown |-> BOOLEAN,
   tokens |-> {CONTEXT_WINDOW_HARD_MIN_TOKENS - 1,
               CONTEXT_WINDOW_WARN_BELOW_TOKENS - 1,
               CONTEXT_WINDOW_WARN_BELOW_TOKENS},
   orders |-> PrefixOrders,
   unres |-> SUBSET Profiles \cup {{NoProfile}},
   promptErrors |-> MsgKinds \ {"auth", "server_error", "compaction_failure"},
   assistantErrors |-> {"rate_limit", "timeout", "unsupported_thinking_level", "other"},
   timedOut |-> BOOLEAN, handleAbort |-> TRUE, rejects |-> TRUE,
   observe |-> FALSE]

InitRun == InitState(RunUniverse)

SpecRun == InitRun /\ [][Next]_vars

\* One run whose model is known and whose context window is large enough, with
\* the outcome of its latest attempt kept for observation.
OutcomeUniverse ==
  [RunUniverse EXCEPT !.params = {p \in RunParams : p.authProfileId \in {NoProfile, 2}},
                      !.unres = {{}, Profiles} \cup {{c} : c \in Profiles},
                      !.promptErrors = (@ \ {"other"}) \cup {"compaction_failure"},
                      !.assistantErrors = {"rate_limit", "unsupported_thinking_level"},
                      !.modelKnown = {TRUE},
                      !.tokens = {CONTEXT_WINDOW_WARN_BELOW_TOKENS},
                      !.rejects = FALSE,
                      !.observe = TRUE]

InitOutcome == InitState(OutcomeUniverse)

SpecOutcome == InitOutcome /\ [][Next]_vars

\* One run that may start at the top of the thinking ladder: its attempts are
\* rejected for the thinking level, rate limited or timed out, or they succeed.
LadderParams ==
  {[NoParams EXCEPT !.sessionId = <<"s">>, !.thinkLevel = t, !.fallbacks = f] :
     t \in {NoLevel, Len(ThinkLevels)}, f \in 0..1}

LadderUniverse ==
  [RunUniverse EXCEPT !.params = LadderParams,
                      !.unres = {{}} \cup {{c} : c \in Profiles},
                      !.promptErrors = {"rate_limit", "unsupported_thinking_level"},
                      !.assistantErrors = {"unsupported_thinking_level"},
                      !.handleAbort = FALSE,
                      !.modelKnown = {TRUE},
                      !.tokens = {CONTEXT_WINDOW_WARN_BELOW_TOKENS},
                      !.rejects = FALSE]

InitLadder == InitState(LadderUniverse)

SpecLadder == InitLadder /\ [][Next]_vars

\* The same run when every step that can happen does happen: the lanes start
\* their tasks and runEmbeddedAttempt settles (its timer aborts a stuck prompt).
SpecLadderFair == SpecLadder /\ WF_vars(Next)

\* The guard alone, over all token counts and thresholds.
InitGuard ==
  /\ InitRuns([RunUniverse EXCEPT !.runs = {}])
  /\ guardIn \in [tokens : 0..MaxTokens, warnBelowTokens : 0..MaxTokens + 1,
                  hardMinTokens : 0..MaxTokens + 1]
  /\ guardOut = NoGuard
  /\ att = AttemptInit(FALSE, FALSE)
  /\ cmd = NoCommand
  /\ ptt = NoPushToTalk
  /\ phone = NoPhone
  /\ replyRun = NoReply

SpecGuard == InitGuard /\ [][EvaluateGuard]_vars

\* One call of runEmbeddedAttempt, with or without a cancellation signal,
\* which may already have fired.
InitAttempt ==
  /\ InitRuns([RunUniverse EXCEPT !.runs = {}])
  /\ guardIn = [tokens |-> 0, warnBelowTokens |-> 0, hardMinTokens |-> 0]
  /\ guardOut = NoGuard
  /\ \E hasSignal \in BOOLEAN, fired \in BOOLEAN :
       /\ fired => hasSignal
       /\ att = AttemptInit(hasSignal, fired)
  /\ cmd = NoCommand
  /\ ptt = NoPushToTalk
  /\ phone = NoPhone
  /\ replyRun = NoReply

SpecAttempt == InitAttempt /\ [][NextAttempt]_vars

\* One call of handleCommands, over all the modelled parameters.
InitCommands ==
  /\ InitRuns([RunUniverse EXCEPT !.runs = {}])
  /\ guardIn = [tokens |-> 0, warnBelowTokens |-> 0, hardMinTokens |-> 0]
  /\ guardOut = NoGuard
  /\ att = AttemptInit(FALSE, FALSE)
  /\ cmd \in [params : CommandParams, result : {NoResult}]
  /\ ptt = NoPushToTalk
  /\ phone = NoPhone
  /\ replyRun = NoReply

SpecCommands == InitCommands /\ [][HandleCommands]_vars

\* The other subsystems at rest.
RunnerIdle ==
  /\ InitRuns([RunUniverse EXCEPT !.runs = {}])
  /\ guardIn = [tokens |-> 0, warnBelowTokens |-> 0, hardMinTokens |-> 0]
  /\ guardOut = NoGuard
  /\ att = AttemptInit(FALSE, FALSE)
  /\ cmd = NoCommand

\* Presses and releases of the push-to-talk key, over every answer of the
\* platform and every interleaving of the tasks.
InitPushToTalk ==
  /\ RunnerIdle
  /\ \E supported \in BOOLEAN, granted \in BOOLEAN, chime \in BOOLEAN,
        throws \in BOOLEAN :
       ptt = PushToTalkInit(supported, granted, chime, throws)
  /\ phone = NoPhone
  /\ replyRun = NoReply

SpecPushToTalk == InitPushToTalk /\ [][NextPushToTalk]_vars

\* Phone control from an unarmed phone, over a few node command lists.
InitPhone ==
  /\ RunnerIdle
  /\ ptt = NoPushToTalk
  /\ phone \in PhoneConfigs
  /\ replyRun = NoReply

SpecPhone == InitPhone /\ [][NextPhone]_vars

\* One call of runReplyAgent, over all the modelled parameters.
InitReply ==
  /\ RunnerIdle
  /\ ptt = NoPushToTalk
  /\ phone = NoPhone
  /\ replyRun \in [params : ReplyParams, out : {NoReplyOutcome}]

SpecReply == InitReply /\ [][RunReplyAgent]_vars

\* ---------------------------------------------------------------- claims
\* The session lane key of a call: the trimmed sessionKey, else the sessionId.
SessionKeyOf(p) ==
  IF p.sessionKey.defined /\ Trim(p.sessionKey.text) # <<>>
  THEN Trim(p.sessionKey.text) ELSE p.sessionId

Submitted(r) == pc[r] # "idle"
InFlight(r) == pc[r] = "attempt"
BodyFinished(r) == pc[r] \in {"body_done", "global_done", "settled"}
BodyStarted(r) == InFlight(r) \/ BodyFinished(r)
SameSession(r1, r2) ==
  /\ r1 # r2 /\ Submitted(r1) /\ Submitted(r2)
  /\ SessionKeyOf(params[r1]) = SessionKeyOf(params[r2])
InLane(k, r) ==
  k \in DOMAIN lanes /\ (r \in lanes[k].active \/ r \in Range(lanes[k].queue))

\* C1: no two attempts of runs with the same session lane key (the trimmed
\* sessionKey, else the sessionId) are in flight at the same time.
C1_OneAttemptPerSession ==
  \A r1, r2 \in {r \in Runs : InFlight(r)} :
    r1 # r2 => SessionKeyOf(params[r1]) # SessionKeyOf(params[r2])

\* A run is in its second attempt while a later run of its session waits and a
\* run of another session is in flight too.
C1_Witness ==
  \E r1, r2, r3 \in Runs :
    /\ SameSession(r1, r2) /\ InFlight(r1) /\ Len(hist[r1].attempts) = 2
    /\ pc[r2] = "session_queued"
    /\ InFlight(r3) /\ ~SameSession(r1, r3) /\ r1 # r3

\* The runs whose body is executing inside global lane g.
ExecutingIn(g) ==
  {r \in Runs : InFlight(r) /\ resolveGlobalLane(params[r].lane) = g}

\* C2: the number of runs executing inside a global lane, over all sessions,
\* never exceeds that lane's maximum concurrent count.
C2_GlobalLaneBound ==
  \A r \in {q \in Runs : InFlight(q)} :
    Cardinality(ExecutingIn(resolveGlobalLane(params[r].lane))) <= uni.globalMax

\* The global lane is full and the run of another session waits for a slot.
C2_Witness ==
  \E r \in Runs :
    /\ pc[r] = "global_queued"
    /\ Cardinality(ExecutingIn(resolveGlobalLane(params[r].lane))) = uni.globalMax

\* C3: runs of one session execute in submission order: the body of an earlier
\* run has finished before the first attempt of a later one starts.
C3_SessionFifo ==
  \A r2 \in {r \in Runs : BodyStarted(r)} :
    \A r1 \in 1..(r2 - 1) :
      SessionKeyOf(params[r1]) = SessionKeyOf(params[r2]) => BodyFinished(r1)

\* Three runs, the first and the third of one session: the third is in flight
\* after the first has finished, while the run of the other session still waits.
C3_Witness ==
  \E r1, r2, r3 \in Runs :
    /\ r1 < r2 /\ r2 < r3 /\ SameSession(r1, r3) /\ ~SameSession(r1, r2)
    /\ BodyFinished(r1) /\ InFlight(r3) /\ pc[r2] = "global_queued"

\* The runs that have an entry, queued or running, in some global lane.
InGlobalLanes ==
  {r \in Runs : \E k \in DOMAIN lanes : ~IsSessionLane(k) /\ InLane(k, r)}

\* C4: lanes nest. A run in a global lane (queued or running) holds the slot of
\* its session lane; a session has at most one entry in the global lanes; and a
\* settled future means the body has run to completion and left both lanes.
C4_LanesNest ==
  LET G == InGlobalLanes IN
  /\ \A r \in G :
       /\ resolveSessionLane(SessionKeyOf(params[r])) \in DOMAIN lanes
       /\ r \in lanes[resolveSessionLane(SessionKeyOf(params[r]))].active
  /\ \A r1, r2 \in G :
       r1 # r2 => SessionKeyOf(params[r1]) # SessionKeyOf(params[r2])
  /\ \A r \in {q \in Runs : pc[q] = "settled"} :
       /\ result[r].kind # "pending"
       /\ \A k \in DOMAIN lanes : ~InLane(k, r)

\* A run holds its session slot while it waits in the global lane behind a run
\* of another session, and a settled run exists.
C4_Witness ==
  \E r1, r2, r3 \in Runs :
    /\ pc[r1] = "settled" /\ pc[r2] = "global_queued" /\ InFlight(r3)
    /\ r2 \in lanes[resolveSessionLane(SessionKeyOf(params[r2]))].active
    /\ uni.globalMax = 1

\* C5: a run whose cancellation signal fires while it waits in a lane never
\* executes its body: no credential is resolved and no attempt is made.
C5_QueuedAbortSkipsBody ==
  \A r \in Runs : hist[r].abortedWhileQueued =>
    /\ hist[r].attempts = <<>>
    /\ hist[r].resolves = <<>>
    /\ ~hist[r].orderResolved

\* C6: when the guard blocks, the run fails with a FailoverError of reason
\* unknown, without any attempt, profile order, credential or profile mark.
C6_GuardBlockIsTerminal ==
  \A r \in Runs : hist[r].guardBlocked =>
    /\ BodyFinished(r)
    /\ result[r].kind = "thrown"
    /\ result[r].errorType = "FailoverError"
    /\ result[r].reason = "unknown"
    /\ hist[r].attempts = <<>>
    /\ ~hist[r].orderResolved
    /\ hist[r].resolves = <<>>
    /\ hist[r].marks = <<>>

\* A blocked run has settled.
C6_Witness == \E r \in Runs : hist[r].guardBlocked /\ pc[r] = "settled"

\* C7: shouldBlock = (tokens < hardMin), shouldWarn = (tokens < warnBelow and
\* not shouldBlock), never both, and the tokens are returned unchanged.
C7_GuardFunction ==
  guardOut.source # None =>
    /\ guardOut.shouldBlock = (guardIn.tokens < guardIn.hardMinTokens)
    /\ guardOut.shouldWarn =
         (guardIn.tokens < guardIn.warnBelowTokens /\ ~guardOut.shouldBlock)
    /\ ~(guardOut.shouldWarn /\ guardOut.shouldBlock)
    /\ guardOut.tokens = guardIn.tokens

\* The guard was evaluated on tokens below both thresholds: it blocks and does
\* not warn.
C7_Witness ==
  /\ guardOut.source # None
  /\ guardIn.tokens < guardIn.hardMinTokens
  /\ guardIn.tokens < guardIn.warnBelowTokens
  /\ guardOut.shouldBlock

\* C8: within a run the candidate index never decreases from one attempt to
\* the next, and no profile is used again after the run rotated away from it.
C8_NoProfileRevisited ==
  \A r \in Runs :
    LET a == hist[r].attempts IN
    \A i, j \in 1..Len(a) : i < j =>
      /\ a[i].index <= a[j].index
      /\ a[i].profileId = a[j].profileId => a[i].index = a[j].index

\* A run made attempts under three different profiles.
C8_Witness ==
  \E r \in Runs :
    Cardinality({hist[r].attempts[i].profileId :
                   i \in 1..Len(hist[r].attempts)}) >= 3

Unpinned(r) == Submitted(r) /\ params[r].authProfileId = NoProfile
AttemptedIndexes(r) == {hist[r].attempts[i].index : i \in 1..Len(hist[r].attempts)}
FailedToResolve(r) ==
  {hist[r].resolves[i].candidate :
     i \in {n \in 1..Len(hist[r].resolves) : ~hist[r].resolves[n].ok}}

\* C9 as stated: for a run without a pinned profile the candidates under which
\* attempts were made are a prefix of the candidate order, none skipped.
C9_AttemptsArePrefix ==
  \A r \in Runs : Unpinned(r) =>
    \A i \in AttemptedIndexes(r) : \A j \in 1..i : j \in AttemptedIndexes(r)

\* C9 amended: for a run without a pinned profile the attempts follow the
\* candidate order, and a candidate before the current one was passed over only
\* if its credential failed to resolve.
C9_AttemptsFollowOrder ==
  \A r \in Runs : Unpinned(r) =>
    LET a == hist[r].attempts IN
    /\ \A i, j \in 1..Len(a) : i < j => a[i].index <= a[j].index
    /\ \A i \in 1..Len(a) : a[i].profileId = run[r].profileCandidates[a[i].index]
    /\ \A i \in AttemptedIndexes(r) : \A j \in 1..i :
         \/ j \in AttemptedIndexes(r)
         \/ run[r].profileCandidates[j] \in FailedToResolve(r)

\* An unpinned run attempted under the first and the third candidate, the
\* second one having failed to resolve.
C9_Witness ==
  \E r \in Runs :
    /\ Unpinned(r)
    /\ AttemptedIndexes(r) = {1, 3}
    /\ run[r].profileCandidates[2] \in FailedToResolve(r)

Pinned(r) == Submitted(r) /\ params[r].authProfileId # NoProfile

\* C10: with a pinned profile the candidate list is that one profile, every
\* attempt uses it, and a failover-worthy failure ends the run at once.
C10_PinnedNeverRotates ==
  \A r \in Runs : (Pinned(r) /\ hist[r].attempts # <<>>) =>
    /\ run[r].profileCandidates = <<params[r].authProfileId>>
    /\ \A i \in 1..Len(hist[r].attempts) :
         hist[r].attempts[i].profileId = params[r].authProfileId
    /\ \A i \in 1..Len(hist[r].marks) :
         hist[r].marks[i].op = "failure" => BodyFinished(r)

\* The thinking levels of the attempts run r made under candidate index i.
LevelsUnder(r, i) ==
  {hist[r].attempts[n].thinkLevel :
     n \in {m \in 1..Len(hist[r].attempts) : hist[r].attempts[m].index = i}}

\* C11: under one credential no thinking level is attempted twice: each later
\* attempt under the same candidate runs at a strictly lower level, so after the
\* lowest level no further downgrade happens on that credential.
C11_LevelOncePerCredential ==
  \A r \in Runs :
    LET a == hist[r].attempts IN
    \A i, j \in 1..Len(a) :
      (i < j /\ a[i].index = a[j].index) =>
        /\ a[j].thinkLevel < a[i].thinkLevel
        /\ a[j].thinkLevel >= 1

\* A run walked the whole ladder under its first candidate, rotated when the
\* lowest level failed, and has ended.
C11_Witness ==
  \E r \in Runs :
    /\ LevelsUnder(r, 1) = 1..Len(ThinkLevels)
    /\ LevelsUnder(r, 2) # {}
    /\ BodyFinished(r)

\* C12: the first attempt after a rotation runs at the starting thinking level
\* with only that level attempted; and when the run ends, also after a rotation
\* that found no candidate, the thinking level, the attempted set and the
\* candidate index are those of the last attempt.
C12_RotationResetsLadder ==
  \A r \in Runs :
    LET a == hist[r].attempts
        n == Len(a)
    IN /\ \A i \in 1..(n - 1) :
            a[i + 1].index > a[i].index =>
              a[i + 1].thinkLevel = InitialThinkLevel(params[r])
       /\ n > 0 =>
            /\ run[r].profileIndex = a[n].index
            /\ run[r].thinkLevel = a[n].thinkLevel
            /\ run[r].attemptedThinking = LevelsUnder(r, a[n].index)
       /\ (n > 1 /\ a[n].index > a[n - 1].index) =>
            run[r].attemptedThinking = {InitialThinkLevel(params[r])}

\* A run downgraded under its first candidate, rotated, downgraded again under
\* the second, and ended after a rotation in which no candidate resolved.
C12_Witness ==
  \E r \in Runs :
    /\ Cardinality(LevelsUnder(r, 1)) > 1
    /\ Cardinality(LevelsUnder(r, 2)) > 1
    /\ BodyFinished(r)
    /\ Len(run[r].profileCandidates) > 2
    /\ \E i \in 1..Len(hist[r].marks) :
         /\ hist[r].marks[i].op = "failure"
         /\ hist[r].marks[i].attempt = Len(hist[r].attempts)
    /\ run[r].attemptedThinking = LevelsUnder(r, 2)

\* C13: a run makes at most (candidates) x (thinking levels) attempts, and it
\* ends: the body returns or throws and the caller's future settles.
C13_LoopTerminates ==
  /\ [](\A r \in Runs :
          Len(hist[r].attempts) <= Len(run[r].profileCandidates) * Len(ThinkLevels))
  /\ <>(\A r \in uni.runs : pc[r] = "settled" /\ result[r].kind # "pending")

\* A run made an attempt at every level under every one of three candidates.
C13_Witness ==
  \E r \in Runs :
    /\ Len(run[r].profileCandidates) = 3
    /\ Len(hist[r].attempts) = 3 * Len(ThinkLevels)
    /\ pc[r] = "settled"

\* The latest attempt of run r that ended, as observed.
Last(r) == hist[r].last
AttemptEnded(r) == Last(r).attempt > 0

\* No attempt was started after the one that ended last.
NoFurtherAttempt(r) == Len(hist[r].attempts) = Last(r).attempt

\* The marks made while the outcome of the latest ended attempt was handled.
MarksOfLast(r) ==
  {hist[r].marks[i] :
     i \in {n \in 1..Len(hist[r].marks) : hist[r].marks[n].attempt = Last(r).attempt}}

FailuresOfLast(r) == {m \in MarksOfLast(r) : m.op = "failure"}

\* C14: an attempt that ends aborted without having timed out ends the run with
\* a returned result reporting aborted: no further attempt, no failure mark, no
\* rotation, no downgrade and no thrown error, whatever errors it carries.
C14_ExternalAbortEndsRun ==
  \A r \in Runs :
    (AttemptEnded(r) /\ Last(r).o.aborted /\ ~Last(r).o.timedOut) =>
      /\ BodyFinished(r)
      /\ result[r].kind = "returned"
      /\ result[r].aborted
      /\ NoFurtherAttempt(r)
      /\ FailuresOfLast(r) = {}
      /\ run[r] = Last(r).before

\* An aborted attempt carried a rate-limit prompt error and an assistant error
\* rejecting the thinking level, with a lower level and a later candidate left.
C14_Witness ==
  \E r \in Runs :
    /\ AttemptEnded(r) /\ Last(r).o.aborted /\ ~Last(r).o.timedOut
    /\ Last(r).o.promptError = "rate_limit"
    /\ Last(r).o.assistantError = "unsupported_thinking_level"
    /\ Last(r).before.thinkLevel > 1
    /\ Last(r).before.profileIndex < Len(Last(r).before.profileCandidates)
    /\ pc[r] = "settled"

\* C15: a non-aborted attempt whose prompt error is a context overflow or a
\* compaction failure ends the run with a returned result holding the one
\* error-flagged payload and the matching tag; nothing is retried, rotated or
\* marked.
C15_SoftErrorIsReturned ==
  \A r \in Runs :
    (AttemptEnded(r) /\ ~Last(r).o.aborted
       /\ Last(r).o.promptError \in {"context_overflow", "compaction_failure"}) =>
      /\ BodyFinished(r)
      /\ result[r].kind = "returned"
      /\ result[r].payloads = "soft_error"
      /\ result[r].errorKind = Last(r).o.promptError
      /\ NoFurtherAttempt(r)
      /\ MarksOfLast(r) = {}
      /\ run[r] = Last(r).before

\* A compaction failure ended a run that had a later candidate and a profile.
C15_Witness ==
  \E r \in Runs :
    /\ AttemptEnded(r) /\ ~Last(r).o.aborted
    /\ Last(r).o.promptError = "compaction_failure"
    /\ Last(r).before.lastProfileId # NoProfile
    /\ Last(r).before.profileIndex < Len(Last(r).before.profileCandidates)
    /\ result[r].errorKind = "compaction_failure"
    /\ pc[r] = "settled"

\* The outcome is a failover-worthy failure: a prompt error of a non-aborted
\* attempt that classifies as a failover reason other than timeout, or else a
\* failover error of the trailing assistant message or a timeout of the attempt.
FailoverWorthy(o) ==
  IF o.promptError # None /\ ~o.aborted
  THEN classifyFailoverReason(o.promptError) \notin {None, "timeout"}
  ELSE (~o.aborted /\ classifyFailoverReason(o.assistantError) # None) \/ o.timedOut

\* The reason such a failure classifies as.
ClassifiedReason(o) ==
  IF o.promptError # None /\ ~o.aborted THEN classifyFailoverReason(o.promptError)
  ELSE IF o.timedOut THEN "timeout"
  ELSE classifyFailoverReason(o.assistantError)

\* The candidate positions after the one of the latest ended attempt whose
\* credential resolves.
UsableLater(r) ==
  {i \in (Last(r).before.profileIndex + 1)..Len(Last(r).before.profileCandidates) :
     Last(r).before.profileCandidates[i] \notin Last(r).unres}

LeastOf(S) == CHOOSE x \in S : \A y \in S : x <= y

\* The attempt after the latest ended one was made under the first later
\* candidate whose credential resolves.
RotatedToNextUsable(r) ==
  /\ ~NoFurtherAttempt(r)
  /\ hist[r].attempts[Last(r).attempt + 1].index = LeastOf(UsableLater(r))

\* The rotation met the pinned profile and its credential did not resolve.
PinnedCredentialFailed(r) ==
  /\ Pinned(r)
  /\ result[r].kind = "thrown"
  /\ result[r].errorType = "credentialError"

\* C16: when no candidate is left after a failover-worthy failure the run throws
\* a FailoverError with the classified reason, with or without a fallback chain.
C16_ExhaustionRaisesFailoverError ==
  \A r \in Runs :
    (AttemptEnded(r) /\ FailoverWorthy(Last(r).o) /\ NoFurtherAttempt(r)
       /\ ~PinnedCredentialFailed(r)) =>
      /\ result[r].kind = "thrown"
      /\ result[r].errorType = "FailoverError"
      /\ result[r].reason = ClassifiedReason(Last(r).o)

\* C17: a timed-out attempt records a failure of reason timeout against the
\* current profile and rotates: the next attempt, if any, runs under a later
\* candidate (never a downgraded retry), it is made whenever a later candidate
\* resolves, and the timed-out attempt is returned as the result only when none
\* does.
C17_TimeoutForcesRotation ==
  \A r \in Runs :
    (AttemptEnded(r) /\ Last(r).o.timedOut) =>
      /\ Last(r).before.lastProfileId # NoProfile =>
            FailuresOfLast(r) =
              {[op |-> "failure", profileId |-> Last(r).before.lastProfileId,
                reason |-> "timeout", attempt |-> Last(r).attempt]}
      /\ UsableLater(r) # {} => (RotatedToNextUsable(r) \/ PinnedCredentialFailed(r))
      /\ ~NoFurtherAttempt(r) =>
            hist[r].attempts[Last(r).attempt + 1].index > Last(r).before.profileIndex
      /\ result[r].kind = "returned" => UsableLater(r) = {}

\* An attempt at level minimal timed out with an assistant error rejecting the
\* thinking level; the run recorded the timeout and rotated.
C17_Witness ==
  \E r \in Runs :
    /\ AttemptEnded(r) /\ Last(r).o.timedOut
    /\ Last(r).o.assistantError = "unsupported_thinking_level"
    /\ Last(r).o.promptError = "rate_limit"
    /\ Last(r).before.thinkLevel = 2
    /\ FailuresOfLast(r) # {}
    /\ RotatedToNextUsable(r)

\* C18: a failover-worthy failure is recorded against the profile that made the
\* attempt, with the classified reason, while that attempt's outcome is handled
\* (before the next attempt starts); failures are recorded for no other profile;
\* and a run whose last attempt succeeds returns under that attempt's profile,
\* which is marked good and used and not failed.
C18_FailureRecordedBeforeRotation ==
  \A r \in Runs :
    LET a == hist[r].attempts IN
    /\ (AttemptEnded(r) /\ FailoverWorthy(Last(r).o)
          /\ Last(r).before.lastProfileId # NoProfile) =>
         FailuresOfLast(r) =
           {[op |-> "failure", profileId |-> a[Last(r).attempt].profileId,
             reason |-> ClassifiedReason(Last(r).o), attempt |-> Last(r).attempt]}
    /\ \A n \in 1..(Len(a) - 1) :
         (a[n + 1].index > a[n].index /\ a[n].profileId # NoProfile) =>
           \E i \in 1..Len(hist[r].marks) :
             /\ hist[r].marks[i].op = "failure"
             /\ hist[r].marks[i].attempt = n
             /\ hist[r].marks[i].profileId = a[n].profileId
    /\ \A i \in 1..Len(hist[r].marks) :
         hist[r].marks[i].op = "failure" =>
           hist[r].marks[i].profileId = a[hist[r].marks[i].attempt].profileId
    /\ (AttemptEnded(r) /\ NoFurtherAttempt(r) /\ Last(r).o = QuietOutcome
          /\ Last(r).before.lastProfileId # NoProfile) =>
         /\ result[r].kind = "returned"
         /\ result[r].profileId = a[Len(a)].profileId
         /\ {[op |-> m.op, profileId |-> m.profileId] : m \in MarksOfLast(r)} =
              {[op |-> "good", profileId |-> a[Len(a)].profileId],
               [op |-> "used", profileId |-> a[Len(a)].profileId]}

\* Three candidates: the attempts under the first two failed with rate_limit and
\* were recorded, the attempt under the third succeeded.
C18_Witness ==
  \E r \in Runs :
    /\ Len(hist[r].attempts) = 3
    /\ \A n \in 1..3 : hist[r].attempts[n].index = n
    /\ {[profileId |-> hist[r].marks[i].profileId, reason |-> hist[r].marks[i].reason] :
          i \in {n \in 1..Len(hist[r].marks) : hist[r].marks[n].op = "failure"}} =
         {[profileId |-> 1, reason |-> "rate_limit"],
          [profileId |-> 2, reason |-> "rate_limit"]}
    /\ AttemptEnded(r) /\ NoFurtherAttempt(r) /\ Last(r).o = QuietOutcome
    /\ result[r].profileId = 3
    /\ pc[r] = "settled"

\* The outcome is a transient failure: rate limit, auth or timeout, reported as a
\* prompt error or through the attempt's outcome.
Transient(o) ==
  IF o.promptError # None /\ ~o.aborted
  THEN classifyFailoverReason(o.promptError) \in {"rate_limit", "auth", "timeout"}
  ELSE \/ ~o.aborted /\ classifyFailoverReason(o.assistantError)
                          \in {"rate_limit", "auth", "timeout"}
       \/ o.timedOut

\* C19 as stated: after a transient failure the run makes a further attempt
\* whenever a later candidate is usable.
C19_TransientAbsorbed ==
  \A r \in Runs :
    (AttemptEnded(r) /\ Transient(Last(r).o) /\ UsableLater(r) # {}) =>
      (RotatedToNextUsable(r) \/ PinnedCredentialFailed(r))

\* C19 amended: a failover-worthy failure (a prompt error classified as timeout
\* is none) is absorbed whenever a later candidate is usable; a prompt error
\* classified as timeout is thrown to the caller at once.
C19_FailoverAbsorbed ==
  \A r \in Runs :
    /\ (AttemptEnded(r) /\ FailoverWorthy(Last(r).o) /\ UsableLater(r) # {}) =>
         (RotatedToNextUsable(r) \/ PinnedCredentialFailed(r))
    /\ (AttemptEnded(r) /\ ~Last(r).o.aborted
          /\ classifyFailoverReason(Last(r).o.promptError) = "timeout") =>
         /\ NoFurtherAttempt(r)
         /\ result[r].kind = "thrown"
         /\ result[r].errorType = "promptError"

\* A rate-limit prompt error was absorbed: the next candidate did not resolve
\* and the run went on under the one after it.
C19_Witness ==
  \E r \in Runs :
    /\ AttemptEnded(r) /\ ~Last(r).o.aborted
    /\ Last(r).o.promptError = "rate_limit"
    /\ Last(r).unres # {}
    /\ RotatedToNextUsable(r)
    /\ LeastOf(UsableLater(r)) > Last(r).before.profileIndex + 1

\* C20: a downgraded retry runs under the same profile as the rejected attempt
\* and no failure is recorded between the two; a run that succeeds after
\* downgrades only reports the level of its last attempt and has recorded no
\* failure.
C20_DowngradeKeepsCredential ==
  \A r \in Runs :
    LET a == hist[r].attempts
        n == Len(a)
    IN /\ \A i \in 1..(n - 1) :
            a[i + 1].index = a[i].index =>
              /\ a[i + 1].profileId = a[i].profileId
              /\ a[i + 1].thinkLevel < a[i].thinkLevel
              /\ \A k \in 1..Len(hist[r].marks) :
                   hist[r].marks[k].attempt = i => hist[r].marks[k].op # "failure"
       /\ (n > 0 /\ a[n].index = a[1].index
            /\ result[r].kind = "returned" /\ ~result[r].aborted
            /\ result[r].message = None /\ result[r].errorKind = None) =>
            /\ result[r].thinkLevel = a[n].thinkLevel
            /\ \A k \in 1..Len(hist[r].marks) : hist[r].marks[k].op # "failure"

\* A run that started at the top of the ladder succeeded at level low under its
\* first profile, after three downgrades, and marked the profile good.
C20_Witness ==
  \E r \in Runs :
    /\ Len(hist[r].attempts) = 4
    /\ \A i \in 1..4 : hist[r].attempts[i].index = 1
    /\ hist[r].attempts[1].profileId # NoProfile
    /\ result[r].kind = "returned" /\ ~result[r].aborted /\ result[r].message = None
    /\ result[r].thinkLevel = 3
    /\ \E k \in 1..Len(hist[r].marks) : hist[r].marks[k].op = "good"

\* C21 as stated: every FailoverError thrown once rotation is exhausted carries
\* the reason the failure classifies as (the one recorded against the profile)
\* and the profile of the failed attempt, and the status 408 whenever the
\* attempt timed out.
C21_FailoverErrorCarriesReason ==
  \A r \in Runs :
    (AttemptEnded(r) /\ result[r].kind = "thrown"
       /\ result[r].errorType = "FailoverError") =>
      /\ result[r].reason = ClassifiedReason(Last(r).o)
      /\ result[r].profileId = Last(r).before.lastProfileId
      /\ (ClassifiedReason(Last(r).o) = "timeout" =>
            result[r].status = REQUEST_TIMEOUT_STATUS)

GoodOrUsed(r) ==
  {k \in 1..Len(hist[r].marks) : hist[r].marks[k].op \in {"good", "used"}}

\* C23: a run marks no profile good or used, or it marks one good and then
\* used, once each, as its last two marks: the profile of its last attempt,
\* after that attempt ended, in a run that returned a result without the
\* soft-error tag.
C23_GoodThenUsedOnce ==
  \A r \in Runs :
    LET m == hist[r].marks
        n == Len(hist[r].attempts)
    IN GoodOrUsed(r) # {} =>
         /\ GoodOrUsed(r) = {Len(m) - 1, Len(m)}
         /\ Len(m) >= 2
         /\ m[Len(m) - 1].op = "good" /\ m[Len(m)].op = "used"
         /\ n > 0
         /\ \A k \in GoodOrUsed(r) :
              /\ m[k].profileId = hist[r].attempts[n].profileId
              /\ m[k].attempt = n
         /\ BodyFinished(r)
         /\ result[r].kind = "returned"
         /\ result[r].errorKind = None

\* A run rotated off its first profile, recording its failure, and marked the
\* second profile good and used after the attempt under it.
C23_Witness ==
  \E r \in Runs :
    /\ Len(hist[r].attempts) = 2
    /\ hist[r].attempts[2].profileId = 2
    /\ Len(hist[r].marks) = 3
    /\ hist[r].marks[1].op = "failure" /\ hist[r].marks[1].profileId = 1
    /\ hist[r].marks[2] = [op |-> "good", profileId |-> 2, reason |-> None,
                           attempt |-> 2]
    /\ hist[r].marks[3].op = "used"
    /\ pc[r] = "settled"

\* C24 as stated: at most one attempt at a time has changed the working
\* directory and not yet restored it.
C24_OneCwdHolder ==
  Cardinality({r \in Runs : prevCwd[r].attempt # None}) <= 1

\* C25 as stated: when every run that was submitted has settled, the process
\* is back in the directory it was in before the first run.
C25_CwdRestored ==
  (\A r \in Runs : pc[r] \in {"idle", "settled"}) => cwd = OriginalCwd

\* C26 as stated: the transcript is only opened under the session write lock,
\* the lock is held from its acquisition until the teardown, and no attempt
\* has ended with the lock still held.
C26_LockScoped ==
  /\ ~att.openedUnlocked
  /\ att.pc \in {"locked", "session", "prompting", "teardown"} => att.lockHeld
  /\ att.pc = "ended" => ~att.lockHeld

\* C27: the timer's expiry goes through abortRun like every abort (the abort
\* controller fires and the session is told to abort); timedOut is set only
\* with aborted, in the attempt and in the result it returns, and only by the
\* timer; and once the prompt has settled the timer is no longer armed.
C27_TimeoutIsAbort ==
  /\ att.timedOut => att.aborted /\ att.timerFired
  /\ att.timerFired => att.timedOut /\ att.controllerAborted /\ att.sessionAborted
  /\ att.outcome.timedOut => att.outcome.aborted /\ att.timerFired
  /\ att.pc \in {"teardown", "ended"} => ~att.timerArmed
  /\ att.timerArmed => att.pc = "prompting"

\* The timer alone aborted an attempt, which returned a result that reports
\* aborted and timedOut, with the timer no longer armed.
C27_Witness ==
  /\ att.ended = "returned"
  /\ att.timerFired /\ ~att.signal /\ ~att.handleAborted
  /\ att.outcome.aborted /\ att.outcome.timedOut
  /\ att.controllerAborted /\ att.sessionAborted
  /\ ~att.timerArmed

LastResolved(r) == hist[r].resolves[Len(hist[r].resolves)].candidate

\* C29 as stated: a run that made no attempt because no credential resolved
\* throws the error of the last candidate it tried; unpinned, it tried every
\* candidate in order, and pinned, it tried only the first.
C29_LastCredentialErrorThrown ==
  \A r \in Runs :
    (BodyFinished(r) /\ hist[r].attempts = <<>>
       /\ result[r].errorType = "credentialError") =>
      /\ result[r].errorOf = LastResolved(r)
      /\ Unpinned(r) =>
           [i \in 1..Len(hist[r].resolves) |-> hist[r].resolves[i].candidate]
             = run[r].profileCandidates
      /\ (Pinned(r) /\ run[r].profileCandidates[1] = params[r].authProfileId) =>
           Len(hist[r].resolves) = 1

\* The messages that are one of the listed commands and nothing else.
CommandOnly ==
  {<<"/help">>, <<"/commands">>, <<"/status">>, <<"/context">>, <<"/whoami">>,
   <<"/reset">>, <<"/new">>}

\* handleCommands ignored the message: no reply and no agent turn.
Ignored == ~cmd.result.shouldContinue /\ cmd.result.reply = None

\* C30 as stated: a command-only message of an unauthorized sender is ignored.
C30_UnauthorizedIgnored ==
  (cmd.result.handled /\ cmd.params.commandBodyNormalized \in CommandOnly
     /\ ~cmd.params.isAuthorizedSender) => Ignored

\* C30 amended: a command-only message of an unauthorized sender is ignored
\* when it is /reset or /new, or when text commands are handled for the
\* message (shouldHandleTextCommands); otherwise the message is not taken as
\* a command and goes on like any text.
C30_UnauthorizedIgnoredWhereHandled ==
  (cmd.result.handled /\ cmd.params.commandBodyNormalized \in CommandOnly
     /\ ~cmd.params.isAuthorizedSender
     /\ (cmd.params.allowTextCommands
           \/ cmd.params.commandBodyNormalized \in {<<"/reset">>, <<"/new">>})) =>
    Ignored

\* /help of an unauthorized sender, where text commands are handled and the
\* send policy allows the session, got no reply and no agent turn.
C30_Witness ==
  /\ cmd.result.handled
  /\ cmd.params.commandBodyNormalized = <<"/help">>
  /\ ~cmd.params.isAuthorizedSender
  /\ cmd.params.allowTextCommands
  /\ cmd.params.sendPolicy = "allow"
  /\ Ignored

\* C32: under fair scheduling every run that was submitted settles with a
\* result or an error, whatever the sessions of the runs and the global
\* concurrency bound.
C32_LanesNeverDeadlock ==
  \A r \in Runs :
    Submitted(r) ~> (pc[r] = "settled" /\ result[r].kind \in {"returned", "thrown"})

\* Three runs settled although one of them held its session slot while it
\* waited for the only global slot and another waited behind it.
C32_Witness ==
  /\ uni.globalMax = 1
  /\ \A r \in Runs : pc[r] = "settled" /\ result[r].kind \in {"returned", "thrown"}
  /\ \E r1, r2 \in Runs : SameSession(r1, r2)
  /\ \E r1, r2 \in Runs :
       r1 # r2 /\ SessionKeyOf(params[r1]) # SessionKeyOf(params[r2])

\* C33 as stated: no run marks a profile good or used after it has recorded a
\* failure against that same profile.
C33_NoRewardAfterPenalty ==
  \A r \in Runs :
    \A i, j \in 1..Len(hist[r].marks) :
      (i < j /\ hist[r].marks[i].op = "failure"
         /\ hist[r].marks[j].op \in {"good", "used"}) =>
        hist[r].marks[i].profileId # hist[r].marks[j].profileId

\* C34 as stated: the reason of a FailoverError thrown after an attempt is the
\* reason of the failure recorded against the profile for that attempt.
C34_ErrorReasonIsRecordedReason ==
  \A r \in Runs :
    (AttemptEnded(r) /\ result[r].kind = "thrown"
       /\ result[r].errorType = "FailoverError") =>
      \A m \in FailuresOfLast(r) :
        /\ m.profileId = result[r].profileId
        /\ m.reason = result[r].reason

\* C37: only an attempt whose prompt is in flight has its queue handle
\* registered as the active run; once the prompt has settled, and when the
\* attempt has returned or thrown, the registration is cleared.
C37_ActiveRunCleared ==
  /\ att.active => att.pc = "prompting"
  /\ att.pc \in {"teardown", "ended"} => ~att.active

\* An attempt that was aborted through its registered queue handle has ended
\* and is no longer registered.
C37_Witness ==
  /\ att.pc = "ended"
  /\ att.handleAborted
  /\ att.outcome.reported /\ att.outcome.aborted
  /\ ~att.active

\* The key was released and both the begin() and the end() task have
\* finished.
PressOver ==
  /\ ptt.presses > 0
  /\ ~ptt.keyDown
  /\ \A i \in Presses : i <= ptt.presses => ptt.begin[i] = "done" /\ ptt.end[i] = "done"

\* C31: push-to-talk captures only while the hotkey is held: whatever the
\* interleaving of the begin() task and the end() task, once the key is
\* released and both tasks have finished, isCapturing is false.
C31_CapturesOnlyWhileHeld == PressOver => ~ptt.isCapturing

\* C35: after a /phone disarm, allowCommands and denyCommands are, as sets,
\* what they were before the phone was first armed, however many times and
\* with whatever groups it was armed in between.
C35_DisarmRestoresLists ==
  phone.last = "disarm" =>
    /\ phone.allowCommands = phone.before.allowCommands
    /\ phone.denyCommands = phone.before.denyCommands

\* The tick just taken found the phone armed and its expiry time reached.
TickFoundExpired ==
  /\ phone.last = "tick"
  /\ phone.seen.armed.exists
  /\ phone.seen.now >= phone.seen.armed.expiresAtMs

SteeredOnly ==
  /\ replyRun.params.shouldSteer
  /\ replyRun.params.isStreaming
  /\ replyRun.params.steerAccepted
  /\ ~replyRun.params.shouldFollowup

\* The session is active and the message is to be queued.
BusyQueued ==
  /\ replyRun.params.isActive
  /\ replyRun.params.shouldFollowup \/ replyRun.params.queueMode = "steer"

\* The call returned undefined after one typing cleanup, without an agent
\* turn.
ReturnedWithoutTurn ==
  /\ replyRun.out.returned = "undefined"
  /\ replyRun.out.cleanups = 1
  /\ replyRun.out.agentTurns = 0
  /\ ~replyRun.out.runComplete

============================================================================
